---- MODULE Spec2Model ----
(***************************************************************************)
(* A model of the request execution core of agentic-flagship-api:          *)
(*   - RateLimitMiddleware            (src/app/security.py)                *)
(*   - validate_url                   (src/app/security.py)                *)
(*   - the URL cache and _fetch       (src/app/tools.py)                   *)
(*   - crawl                          (src/app/tools.py)                   *)
(*   - BrowserManager and its tools   (src/app/browser.py,                 *)
(*                                     src/app/browser_tools.py)           *)
(*   - event_generator of /run-mission (src/app/routes.py)                 *)
(* Each component has its own specifications (SpecRate, SpecRetry,         *)
(* SpecValidate, SpecFetch, SpecCache, SpecCrawl, SpecCrawlLive,           *)
(* SpecBrowser, SpecSession, SpecRelay); the variables of the other        *)
(* components stay at their initial value in them.                         *)
(***************************************************************************)
EXTENDS Integers, Sequences, FiniteSets, TLC

VARIABLES
  \* ---- RateLimitMiddleware (security.py:34-73)
  rpm,            \* self.rpm
  windows,        \* self._windows : dict key -> deque of timestamps
  request_count,  \* self._request_count
  now,            \* last value read from time.time(), in ticks
  inflight,       \* handlers suspended in `await call_next(request)`
  reqlog,         \* history: the keyed requests dispatched so far
  \* ---- validate_url called on its own (security.py:90-111)
  vurl,           \* the url argument
  vans,           \* what socket.getaddrinfo answers for its hostname
  vres,           \* the value returned ("pending" before the call)
  vlookups,       \* history: number of getaddrinfo calls made
  \* ---- the URL cache and _fetch (tools.py:52-99)
  cache,          \* _cache : dict url -> (html, ts)
  mono,           \* the current value of time.monotonic(), in seconds
  dns,            \* what getaddrinfo answers for each hostname at present
  fetch,          \* the _fetch invocations: slot -> its position and locals
  nfetch,         \* history: number of _fetch invocations started
  netlog,         \* history: url -> the last (html, time) stored by a GET
  \* ---- one crawl invocation (tools.py:325-383)
  cpc,            \* "idle", "loop" (at line 344), "fetch" (in the await of
                  \* line 353) or "done"
  cargs,          \* the arguments url and max_pages as passed by the caller
  max_pages,      \* max_pages after line 336
  domain,         \* domain
  visited,        \* visited : set of normalized URLs
  queue,          \* queue
  results,        \* results
  current_url,    \* current_url
  enqueued,       \* history: every URL ever placed in queue
  fetched,        \* history: the arguments of the _fetch calls, in order
  \* ---- BrowserManager and the browser tools (browser.py, browser_tools.py)
  playwright,     \* self._playwright : 0 (None) or the number of the instance
  browser,        \* self._browser : 0 (None) or the number of a browser
  context,        \* self._context : 0 (None) or the number of a context
  page,           \* self._page : 0 (None) or the number of a page
  browsers,       \* the browsers launched so far: [connected]
  contexts,       \* the contexts created so far: [browser, open]
  pages,          \* the pages created so far: [context, open]
  tools,          \* the browser tools were handed to the agent (agent.py:47)
  tpc,            \* a tool call: "idle", or "page" (it holds the page it got)
  held,           \* the page the running tool call got from get_page()
  destroyed,      \* history: the last call failed with a context-destroyed
                  \* error (page current then, pages created until then,
                  \* whether its reset_page() raised)
  returned,       \* history: what the last get_page() call returned
  resets,         \* history: the last _reset_context (what it did)
  session,        \* history: "no" (start() not called yet), "ready" (the
                  \* last start() brought the browser up), "broken" (every
                  \* start() so far failed) or "rebroken" (a start() failed
                  \* after one that had succeeded)
  teardown,       \* history: the last stop() (steps due, steps attempted,
                  \* whether it raised)
  tresult,        \* history: how the last browser tool call ended: "none",
                  \* "running", "text" (it returned a string),
                  \* "navigate_again" (it returned "Browser context was
                  \* destroyed and has been reset. Please navigate to the
                  \* URL again.") or "raised"
  \* ---- get_page()/reset_page() calls of concurrent requests (browser.py:69-91)
  calls,          \* caller -> where its call stands and its locals
  callog,         \* history: calls started, whether an awaited Playwright
                  \* call of one of them failed, whether two calls overlapped
  \* ---- event_generator of run_mission (routes.py:32-61)
  timeout,        \* settings.agent_request_timeout
  gen,            \* where the generator stands: "new", "await" (in the async
                  \* for, waiting for the agent's next event), "yield"
                  \* (suspended at a yield of lines 44-48 while the response
                  \* task sends the frame), "last" (suspended at the yield of
                  \* a done or error frame), "closed" (it returned) or
                  \* "cancelled" (the response task was cancelled outside it)
  frames,         \* the frames yielded so far
  nevents,        \* history: number of events the agent has produced
  evlog,          \* history: the events the agent has produced, in order
  fault           \* history: how the event sequence ended

rateVars == <<rpm, windows, request_count, now, inflight, reqlog>>
valVars == <<vurl, vans, vres, vlookups>>
fetchVars == <<cache, mono, dns, fetch, nfetch, netlog>>
crawlVars == <<cpc, cargs, max_pages, domain, visited, queue, results,
               current_url, enqueued, fetched>>

browserVars == <<playwright, browser, context, page, browsers, contexts,
                 pages, tools, tpc, held, destroyed, returned, resets,
                 session, teardown, tresult>>

callVars == <<calls, callog>>

relayVars == <<timeout, gen, frames, nevents, evlog, fault>>

vars == <<rateVars, valVars, fetchVars, crawlVars, browserVars, callVars,
          relayVars>>

\* The variables of the components other than the named one.
exceptRate == <<valVars, fetchVars, crawlVars, browserVars, callVars, relayVars>>
exceptVal == <<rateVars, fetchVars, crawlVars, browserVars, callVars, relayVars>>
exceptFetch == <<rateVars, valVars, crawlVars, browserVars, callVars, relayVars>>
exceptCrawl == <<rateVars, valVars, browserVars, callVars, relayVars>>
exceptBrowser == <<rateVars, valVars, fetchVars, crawlVars, callVars, relayVars>>
exceptCalls == <<rateVars, valVars, fetchVars, crawlVars, relayVars>>
exceptRelay == <<rateVars, valVars, fetchVars, crawlVars, browserVars, callVars>>

\* ------------------------------------------------------------------------
\* Generic helpers
\* ------------------------------------------------------------------------
Max(a, b) == IF a >= b THEN a ELSE b
Min(a, b) == IF a <= b THEN a ELSE b

\* Python's int() on the quotient n/d (d > 0): truncation toward zero.
IntTrunc(n, d) == IF n >= 0 THEN n \div d ELSE -((-n) \div d)

Last(s) == s[Len(s)]

\* ------------------------------------------------------------------------
\* Rate limiter
\* ------------------------------------------------------------------------
\* Model bounds.
MaxRpm == 2          \* rpm is drawn from 1..MaxRpm
MaxReq == 4          \* keyed requests dispatched in one behaviour
MaxInflight == 2     \* handlers suspended in call_next at one time
MaxMinutes == 1      \* the clock is sampled around 0, 60 s, ..., MaxMinutes*60 s
TicksPerSec == 2     \* clock resolution: one tick is 1/TicksPerSec second

\* Program constants.
WindowSeconds == 60  \* the lookback of the sliding window
RetryBase == 61      \* int(61 - (now - window[0]))
CleanupEvery == 100  \* self._request_count % 100 == 0

Keys == {"k1", "k2"}

WindowTicks == WindowSeconds * TicksPerSec

\* The values time.time() is sampled at: one tick around every whole minute.
ClockValues ==
  { m * WindowTicks + j : m \in 0..MaxMinutes, j \in {-1, 0, 1} } \cap Nat

\* A timestamp older than anything the clock can read again within the window.
LongAgo == -(WindowTicks + 1)

\* while window and window[0] < now - 60: window.popleft()
\* (mutant) the whole window is dropped as soon as its head is stale
PurgeClear(w, t) ==
  IF w # <<>> /\ w[1] < t - WindowTicks THEN <<>> ELSE w

RECURSIVE Purge(_, _)
Purge(w, t) ==
  IF w # <<>> /\ w[1] < t - WindowTicks THEN Purge(Tail(w), t) ELSE w

\* (mutant) the admission test is off by one
OverLimitOffByOne(w) == Len(w) > rpm

\* len(window) >= self.rpm
OverLimit(w) == Len(w) >= rpm

\* (mutant) the retry delay is counted from 60 instead of 61
RetryAfterShort(w, t) ==
  Max(IntTrunc(WindowSeconds * TicksPerSec - (t - w[1]), TicksPerSec), 1)

\* max(int(61 - (now - window[0])), 1), in seconds
RetryAfter(w, t) ==
  Max(IntTrunc(RetryBase * TicksPerSec - (t - w[1]), TicksPerSec), 1)

\* (mutant) a key is stale as soon as its last request is older than now
StaleEager(ws, t) ==
  { k \in DOMAIN ws : ws[k] = <<>> \/ Last(ws[k]) < t }

\* stale = [k for k, v in self._windows.items() if not v or v[-1] < now - 60]
Stale(ws, t) ==
  { k \in DOMAIN ws : ws[k] = <<>> \/ Last(ws[k]) < t - WindowTicks }

\* _cleanup: for k in stale: del self._windows[k]
Cleanup(ws, t) == [ k \in (DOMAIN ws) \ Stale(ws, t) |-> ws[k] ]

\* self._windows.setdefault(api_key, deque())
SetDefault(ws, k) == IF k \in DOMAIN ws THEN ws[k] ELSE <<>>

Put(ws, k, w) == [ x \in (DOMAIN ws) \cup {k} |-> IF x = k THEN w ELSE ws[x] ]

\* The window after an admitted request: window.append(now)
Admit(w, t) == Append(w, t)

\* The dict after the opportunistic cleanup of an admitted request.
AfterCount(ws, c, t) == IF c % CleanupEvery = 0 THEN Cleanup(ws, t) ELSE ws

InitRateVars ==
  /\ rpm \in 1..MaxRpm
  /\ now = 0
  /\ inflight = 0
  /\ reqlog = <<>>
     \* a new process, or one that admitted CleanupEvery - 2 requests long ago
  /\ \/ request_count = 0 /\ windows = << >>
     \/ request_count = CleanupEvery - 2
        /\ windows = [ k \in Keys |-> <<LongAgo>> ]

\* dispatch of a request without X-API-Key: straight to call_next.
DispatchNoKey ==
  /\ inflight < MaxInflight
  /\ inflight' = inflight + 1
  /\ UNCHANGED <<rpm, windows, request_count, now, reqlog>>

\* dispatch of a request with key k whose time.time() reads t, rejected.
DispatchReject(k, t) ==
  LET w == Purge(SetDefault(windows, k), t) IN
  /\ OverLimit(w)
  /\ now' = t
  /\ windows' = Put(windows, k, w)
  /\ reqlog' = Append(reqlog, [key |-> k, t |-> t, status |-> 429,
                               retry |-> RetryAfter(w, t)])
  /\ UNCHANGED <<rpm, request_count, inflight>>

\* dispatch of a request with key k whose time.time() reads t, admitted.
DispatchAdmit(k, t) ==
  LET w == Purge(SetDefault(windows, k), t) IN
  /\ ~OverLimit(w)
  /\ now' = t
  /\ request_count' = request_count + 1
  /\ windows' = AfterCount(Put(windows, k, Admit(w, t)), request_count', t)
  /\ inflight' = inflight + 1
  /\ reqlog' = Append(reqlog, [key |-> k, t |-> t, status |-> 200, retry |-> 0])
  /\ UNCHANGED rpm

Dispatch ==
  /\ Len(reqlog) < MaxReq
  /\ inflight < MaxInflight
  /\ \E k \in Keys, t \in ClockValues :
       /\ t >= now
       /\ DispatchReject(k, t) \/ DispatchAdmit(k, t)

\* The values time.time() is sampled at when a client is rejected and comes
\* back: the first second, and from 59 s to 62 s.
RetryClock ==
  {0, 1, TicksPerSec}
    \cup ((WindowTicks - TicksPerSec)..(WindowTicks + 2 * TicksPerSec))

\* dispatch of a request of one client, at those times.
RetryDispatch ==
  /\ Len(reqlog) < MaxReq
  /\ \E t \in RetryClock :
       /\ t >= now
       /\ DispatchReject("k1", t) \/ DispatchAdmit("k1", t)

\* `await call_next(request)` of one suspended handler returns.
CallNextReturn ==
  /\ inflight > 0
  /\ inflight' = inflight - 1
  /\ UNCHANGED <<rpm, windows, request_count, now, reqlog>>

\* ------------------------------------------------------------------------
\* URLs (urllib.parse.urlparse) and the SSRF validator
\* ------------------------------------------------------------------------
\* A URL is the record of the components urlparse splits it into; "" is an
\* absent component.
Url(s, n, p, q, f) ==
  [scheme |-> s, netloc |-> n, path |-> p, query |-> q, fragment |-> f]

\* parsed.hostname: the netloc without port, lower-cased; None ("") if empty.
Hostname(netloc) ==
  CASE netloc = "example.com"      -> "example.com"
    [] netloc = "example.com:8080" -> "example.com"
    [] netloc = "EXAMPLE.com"      -> "example.com"
    [] netloc = "other.org"        -> "other.org"
    [] OTHER                       -> ""

\* IP addresses: version 4 as four 8-bit groups, version 6 as eight 16-bit
\* groups; a network is an address and a prefix length.
V4(a, b, c, d) == [v |-> 4, g |-> <<a, b, c, d>>]
V6(g) == [v |-> 6, g |-> g]
Net(ip, len) == [v |-> ip.v, g |-> ip.g, len |-> len]
GroupBits(v) == IF v = 4 THEN 8 ELSE 16

RECURSIVE Pow2(_)
Pow2(n) == IF n = 0 THEN 1 ELSE 2 * Pow2(n - 1)

\* `ip in network` of module ipaddress: same version, same leading len bits.
InNet(ip, net) ==
  /\ ip.v = net.v
  /\ \A i \in 1..Len(ip.g) :
       LET w == GroupBits(ip.v)
           k == net.len - (i - 1) * w     \* prefix bits that fall in group i
       IN  IF k >= w THEN ip.g[i] = net.g[i]
           ELSE IF k <= 0 THEN TRUE
           ELSE ip.g[i] \div Pow2(w - k) = net.g[i] \div Pow2(w - k)

\* _BLOCKED_NETWORKS
BLOCKED_NETWORKS == <<
  Net(V4(127, 0, 0, 0), 8),
  Net(V4(10, 0, 0, 0), 8),
  Net(V4(172, 16, 0, 0), 12),
  Net(V4(192, 168, 0, 0), 16),
  Net(V4(169, 254, 0, 0), 16),
  Net(V6(<<0, 0, 0, 0, 0, 0, 0, 1>>), 128) >>

\* for network in _BLOCKED_NETWORKS: if ip in network
IsBlocked(ip) ==
  \E n \in 1..Len(BLOCKED_NETWORKS) : InNet(ip, BLOCKED_NETWORKS[n])

\* The addresses getaddrinfo may answer with.
Addrs == {
  V4(127, 0, 0, 1), V4(10, 1, 2, 3), V4(172, 16, 0, 1), V4(172, 31, 255, 255),
  V4(172, 32, 0, 1), V4(192, 168, 1, 1), V4(169, 254, 169, 254),
  V4(8, 8, 8, 8), V4(11, 0, 0, 1),
  V6(<<0, 0, 0, 0, 0, 0, 0, 1>>),               \* ::1
  V6(<<65152, 0, 0, 0, 0, 0, 0, 1>>),           \* fe80::1
  V6(<<64768, 0, 0, 0, 0, 0, 0, 1>>),           \* fd00::1
  V6(<<8193, 18528, 0, 0, 0, 0, 0, 34952>>) }   \* 2001:4860::8888

MaxAddrs == 2        \* addresses in one getaddrinfo answer

\* An answer of getaddrinfo: socket.gaierror raised, or a non-empty list of
\* addresses.
GaiError == [ok |-> FALSE, addrs |-> <<>>]
Resolved(as) == [ok |-> TRUE, addrs |-> as]
Answers ==
  {GaiError} \cup { Resolved(as) : as \in UNION { [1..n -> Addrs] : n \in 1..MaxAddrs } }

Pending == [kind |-> "pending"]  \* no value returned yet

NoError == [kind |-> "none"]     \* validate_url returns None
BlockedScheme(s) == [kind |-> "scheme", scheme |-> s]
BlockedHostname == [kind |-> "hostname"]
BlockedResolve(h) == [kind |-> "resolve", hostname |-> h]
BlockedPrivate(ip) == [kind |-> "private", ip |-> ip]

\* The first address of the answer that lies in a blocked network.
FirstBlocked(as) ==
  LET i == CHOOSE j \in 1..Len(as) :
             IsBlocked(as[j]) /\ \A h \in 1..(j - 1) : ~IsBlocked(as[h])
  IN  as[i]

\* parsed.scheme not in ("http", "https")
SchemeAllowed(s) == s \in {"http", "https"}

\* Whether validate_url reaches socket.getaddrinfo for this url.
Resolves(url) == SchemeAllowed(url.scheme) /\ Hostname(url.netloc) # ""

\* (mutant) only the first resolved address is tested
AnyBlockedFirstOnly(as) == IsBlocked(as[1])

\* the loop over addr_info finds an address in a blocked network
AnyBlocked(as) == \E j \in 1..Len(as) : IsBlocked(as[j])

\* validate_url(url), when getaddrinfo answers ans for the hostname.
ValidateUrl(url, ans) ==
  IF ~SchemeAllowed(url.scheme) THEN BlockedScheme(url.scheme)
  ELSE IF Hostname(url.netloc) = "" THEN BlockedHostname
  ELSE IF ~ans.ok THEN BlockedResolve(Hostname(url.netloc))
  ELSE IF AnyBlocked(ans.addrs) THEN BlockedPrivate(FirstBlocked(ans.addrs))
  ELSE NoError

Schemes == {"http", "https", "ftp", "file"}
Netlocs == {"", "example.com", "example.com:8080"}

InitValVars ==
  /\ vurl \in { Url(s, n, "/", "", "") : s \in Schemes, n \in Netlocs }
  /\ vans \in Answers
  /\ vres = Pending
  /\ vlookups = 0

\* One call of validate_url(vurl).
Validate ==
  /\ vres = Pending
  /\ vres' = ValidateUrl(vurl, vans)
  /\ vlookups' = IF Resolves(vurl) THEN vlookups + 1 ELSE vlookups
  /\ UNCHANGED <<vurl, vans>>


\* ------------------------------------------------------------------------
\* The URL cache and _fetch
\* ------------------------------------------------------------------------
CACHE_TTL == 300     \* _CACHE_TTL, seconds

\* Model bounds.
MaxTtl == 1          \* the monotonic clock is read around 0, 300 s, ..., MaxTtl*300 s
MaxFetches == 3      \* _fetch invocations started in one behaviour
MaxHops == 1         \* redirects the server answers to one GET

\* The values of time.monotonic(): one second around every multiple of the TTL.
MonoValues ==
  { m * CACHE_TTL + j : m \in 0..MaxTtl, j \in {-1, 0, 1} } \cap Nat

NoUrl == Url("", "", "", "", "")
UrlA == Url("https", "example.com", "/a", "", "")
UrlB == Url("http", "other.org", "/b", "", "")
UrlF == Url("ftp", "example.com", "/a", "", "")
FetchUrls == {UrlA, UrlB, UrlF}          \* the arguments of _fetch
FetchBodies == {"html1", "html2"}        \* resp.text

Public == Resolved(<<V4(8, 8, 8, 8)>>)
Loopback == Resolved(<<V4(127, 0, 0, 1)>>)
Hostnames == {"example.com", "other.org"}

NoHtml == "None"                         \* html is None
\* (html, error) as returned by _fetch
Ok(html) == [html |-> html, error |-> NoError]
Err(e) == [html |-> NoHtml, error |-> e]
HttpStatusError(u) == [kind |-> "http", url |-> u]
RequestError(u) == [kind |-> "request", url |-> u]

\* validate_url(url) at the present state of the DNS
ValidateNow(url) ==
  ValidateUrl(url, IF Hostname(url.netloc) \in Hostnames
                   THEN dns[Hostname(url.netloc)] ELSE GaiError)

Drop(c, url) == [ k \in (DOMAIN c) \ {url} |-> c[k] ]

\* (mutant) entries never expire
ExpiredNever(entry, t) == FALSE

\* time.monotonic() - ts > _CACHE_TTL
Expired(entry, t) == t - entry.ts > CACHE_TTL

\* The value _cache_get(url) returns at time t: the html or None.
CacheGet(c, url, t) ==
  IF url \notin DOMAIN c THEN NoHtml
  ELSE IF Expired(c[url], t) THEN NoHtml
  ELSE c[url].html

\* (mutant) the lookup sweeps every expired entry
CacheAfterGetSweep(c, url, t) ==
  [ k \in { x \in DOMAIN c : ~Expired(c[x], t) } |-> c[k] ]

\* _cache after _cache_get(url) at time t: an expired entry of url is deleted.
CacheAfterGet(c, url, t) ==
  IF url \in DOMAIN c /\ Expired(c[url], t) THEN Drop(c, url) ELSE c

\* (mutant) an entry that exists is kept
CacheSetIfAbsent(c, url, html, t) ==
  IF url \in DOMAIN c THEN c
  ELSE [ k \in (DOMAIN c) \cup {url} |-> IF k = url THEN [html |-> html, ts |-> t] ELSE c[k] ]

\* _cache after _cache_set(url, html) at time t
CacheSet(c, url, html, t) ==
  [ k \in (DOMAIN c) \cup {url} |->
      IF k = url THEN [html |-> html, ts |-> t] ELSE c[k] ]

\* What the lookup of an invocation found (history).
Lookup(c, url, t) ==
  IF url \notin DOMAIN c THEN "miss"
  ELSE IF Expired(c[url], t) THEN "expired" ELSE "hit"

\* A _fetch invocation: pc is "idle" (not called), "get" (suspended in
\* `await http_client.get`) or "done" (returned res).  cur is the URL of the
\* request in flight.  valid, look, gets, reqs and wrote record what the
\* invocation has done so far: validate_url passed, what _cache_get found,
\* the number of http_client.get calls, the URLs requested over the network
\* (redirect hops included), _cache_set called; unsafe holds the URLs
\* requested that validate_url would have blocked when they were requested.
IdleFetch ==
  [pc |-> "idle", url |-> NoUrl, cur |-> NoUrl, hops |-> 0, res |-> Err(NoError),
   valid |-> FALSE, look |-> "none", gets |-> 0, reqs |-> {}, wrote |-> FALSE,
   unsafe |-> {}]

Called(u) == [IdleFetch EXCEPT !.url = u]

\* (mutant) the cache is consulted before the validator
FetchBeginCacheFirst(s, u) ==
  LET cached == CacheGet(cache, u, mono)
      seen == [Called(u) EXCEPT !.look = Lookup(cache, u, mono)]
      ssrf == ValidateNow(u)
  IN
  /\ cache' = CacheAfterGet(cache, u, mono)
  /\ IF cached # NoHtml
     THEN fetch' = [fetch EXCEPT ![s] = [seen EXCEPT !.pc = "done", !.res = Ok(cached)]]
     ELSE IF ssrf # NoError
     THEN fetch' = [fetch EXCEPT ![s] = [seen EXCEPT !.pc = "done", !.res = Err(ssrf)]]
     ELSE fetch' = [fetch EXCEPT ![s] =
            [seen EXCEPT !.pc = "get", !.valid = TRUE, !.cur = u,
                         !.gets = 1, !.reqs = {u}]]

\* _fetch(u), lines 82-91: from the call to the first suspension
\* (`await http_client.get`) or to an early return.
FetchBegin(s, u) ==
  LET ssrf == ValidateNow(u)
      cached == CacheGet(cache, u, mono)
      passed == [Called(u) EXCEPT !.valid = TRUE, !.look = Lookup(cache, u, mono)]
  IN
  IF ssrf # NoError
  THEN /\ fetch' = [fetch EXCEPT ![s] = [Called(u) EXCEPT !.pc = "done", !.res = Err(ssrf)]]
       /\ cache' = cache
  ELSE /\ cache' = CacheAfterGet(cache, u, mono)
       /\ IF cached # NoHtml
          THEN fetch' = [fetch EXCEPT ![s] = [passed EXCEPT !.pc = "done", !.res = Ok(cached)]]
          ELSE fetch' = [fetch EXCEPT ![s] =
                 [passed EXCEPT !.pc = "get", !.cur = u, !.gets = 1, !.reqs = {u}]]

\* The server answers the pending request with a redirect to `to`; the
\* client (follow_redirects=True) requests `to`.
FetchRedirect(s, to) ==
  /\ fetch[s].pc = "get"
  /\ fetch[s].hops < MaxHops
  /\ fetch' = [fetch EXCEPT ![s].cur = to, ![s].hops = @ + 1,
                            ![s].reqs = @ \cup {to},
                            ![s].unsafe = IF ValidateNow(to) # NoError
                                          THEN @ \cup {to} ELSE @]
  /\ UNCHANGED <<cache, mono, dns, nfetch, netlog>>

\* (mutant) the body is cached under the URL the response came from
FetchOkFinalUrl(s, html) ==
  /\ fetch[s].pc = "get"
  /\ cache' = CacheSet(cache, fetch[s].cur, html, mono)
  /\ fetch' = [fetch EXCEPT ![s].pc = "done", ![s].res = Ok(html),
                            ![s].wrote = TRUE]
  /\ netlog' = CacheSet(netlog, fetch[s].cur, html, mono)
  /\ UNCHANGED <<mono, dns, nfetch>>

\* The awaited GET returns a non-error status: lines 92-95.
FetchOk(s, html) ==
  /\ fetch[s].pc = "get"
  /\ cache' = CacheSet(cache, fetch[s].url, html, mono)
  /\ fetch' = [fetch EXCEPT ![s].pc = "done", ![s].res = Ok(html),
                            ![s].wrote = TRUE]
  /\ netlog' = CacheSet(netlog, fetch[s].url, html, mono)
  /\ UNCHANGED <<mono, dns, nfetch>>

\* raise_for_status raises HTTPStatusError (lines 96-97), or the GET raises
\* a RequestError (lines 98-99).
FetchFail(s) ==
  /\ fetch[s].pc = "get"
  /\ \E e \in {HttpStatusError(fetch[s].url), RequestError(fetch[s].url)} :
       fetch' = [fetch EXCEPT ![s].pc = "done", ![s].res = Err(e)]
  /\ UNCHANGED <<cache, mono, dns, nfetch, netlog>>

\* cache_clear()
CacheClear ==
  /\ cache # << >>
  /\ cache' = << >>
  /\ UNCHANGED <<mono, dns, fetch, nfetch, netlog>>

\* Time passes.
Tick ==
  /\ \E t \in MonoValues : t > mono /\ mono' = t
  /\ UNCHANGED <<cache, dns, fetch, nfetch, netlog>>

\* The hostnames whose DNS answer changes over time (DNS rebinding).
RebindHosts == {"other.org"}

\* The DNS answer for a hostname changes.
DnsChange ==
  /\ \E h \in RebindHosts, a \in {Public, Loopback} :
       a # dns[h] /\ dns' = [dns EXCEPT ![h] = a]
  /\ UNCHANGED <<cache, mono, fetch, nfetch, netlog>>

ToolSlots == {"t1", "t2"}      \* _fetch called by scrape, page_info, ...
CrawlSlot == "crawl"           \* _fetch called by crawl
Slots == ToolSlots \cup {CrawlSlot}

\* A tool running in one of the slots S calls _fetch(u), u in U.
ToolFetch(S, U) ==
  /\ nfetch < MaxFetches
  /\ \E s \in S, u \in U :
       /\ fetch[s].pc \in {"idle", "done"}
       /\ FetchBegin(s, u)
  /\ nfetch' = nfetch + 1
  /\ UNCHANGED <<mono, dns, netlog>>

ToolRedirect(S) == \E s \in S, to \in {UrlA, UrlB} : FetchRedirect(s, to)
ToolOk(S) == \E s \in S, html \in FetchBodies : FetchOk(s, html)
ToolFail(S) == \E s \in S : FetchFail(s)

InitFetchVars ==
  /\ cache = << >>
  /\ mono = 0
  /\ dns = [h \in Hostnames |-> Public]
  /\ fetch = [s \in Slots |-> IdleFetch]
  /\ nfetch = 0
  /\ netlog = << >>

\* ========================================================================
\* crawl (src/app/tools.py:325-383)
\* ========================================================================
MinPages == 1        \* max(1, ...)
PageCap == 10        \* min(10, max_pages)

\* (mutant) the upper limit of the clamp is missing
ClampPagesNoCap(n) == Max(MinPages, n)

\* max_pages = max(1, min(10, max_pages))
ClampPages(n) == Max(MinPages, Min(PageCap, n))

\* urlparse(u)._replace(query="", fragment="").geturl()
Normalize(u) == [u EXCEPT !.query = "", !.fragment = ""]

\* The schemes urljoin resolves a reference against (urllib.parse.uses_relative).
UsesRelative == {"", "http", "https", "ftp"}

\* urljoin(base, href) for references whose path is empty or absolute.
UrlJoin(base, href) ==
  LET scheme == IF href.scheme = "" THEN base.scheme ELSE href.scheme IN
  IF href = NoUrl THEN base
  ELSE IF scheme # base.scheme \/ scheme \notin UsesRelative THEN href
  ELSE IF href.netloc # "" THEN [href EXCEPT !.scheme = scheme]
  ELSE IF href.path = ""
       THEN Url(scheme, base.netloc, base.path,
                IF href.query = "" THEN base.query ELSE href.query,
                href.fragment)
  ELSE Url(scheme, base.netloc, href.path, href.query, href.fragment)

\* The site that is crawled.  A page is the list of the href values of its
\* <a href> tags, in document order.
Site(path) == Url("https", "example.com", path, "", "")
Rel(path) == Url("", "", path, "", "")
HubPaths == <<"/1", "/2", "/3", "/4", "/5", "/6", "/7", "/8", "/9", "/10", "/11">>
Links(html) ==
  CASE html = "hub" ->
         <<Rel("/1"),
           Url("https", "other.org", "/b", "", ""),     \* another host
           Url("", "", "/1", "x=1", ""),                \* /1 again, with a query
           Url("", "", "", "", "top"),                  \* #top
           Url("mailto", "", "me@example.com", "", ""),
           Url("", "other.org", "/z", "", ""),          \* //other.org/z
           Url("https", "example.com:8080", "/1", "", ""),
           NoUrl>>                                      \* href=""
         \o [i \in 1..(Len(HubPaths) - 1) |-> Rel(HubPaths[i + 1])]
    [] html = "mid" ->
         <<Rel("/"), Url("", "", "/1", "", "sec"),
           Url("http", "example.com", "/12", "", ""),
           Url("", "", "/2", "y=2", "")>>
    [] html = "ext" -> <<Rel("/x"), Url("http", "other.org", "/b", "", "")>>
    [] OTHER -> << >>

\* The body the server sends for a URL.
PageOf(u) ==
  IF u.netloc # "example.com" THEN "ext"
  ELSE IF u.path = "/" THEN "hub"
  ELSE IF u.path = "/1" THEN "mid"
  ELSE IF u.path = "/2" THEN "bare"
  ELSE "leaf"

\* soup.select(selector) finds elements
Matches(html) == html # "bare"

\* The arguments of crawl.
CrawlStarts == {Site("/"), Url("https", "example.com", "/1", "s=1", "")}
CrawlMaxPages == {0, 1, 3, 11}

\* (mutant) links to every host are followed
SameDomainAny(u, d) == TRUE

\* parsed.scheme in ("http", "https") and parsed.netloc == domain
SameDomain(u, d) == u.scheme \in {"http", "https"} /\ u.netloc = d

\* Link discovery, lines 369-381: the queue after the <a href> tags
\* hrefs[i..] of the page at `base` have been processed.
RECURSIVE Discover(_, _, _, _, _, _)
Discover(q, hrefs, i, base, d, seen) ==
  IF i > Len(hrefs) THEN q
  ELSE LET abs_url == UrlJoin(base, hrefs[i]) IN
       Discover(IF SameDomain(abs_url, d) /\ Normalize(abs_url) \notin seen
                THEN Append(q, abs_url) ELSE q,
                hrefs, i + 1, base, d, seen)

\* An entry of results: the text selected from the page html ("content"),
\* "No elements matching" ("nomatch"), or an error.
Result(u, kind, html) == [url |-> u, kind |-> kind, html |-> html]

InitCrawlVars ==
  /\ cpc = "idle" /\ cargs = [url |-> NoUrl, max_pages |-> 0]
  /\ max_pages = 0 /\ domain = "" /\ visited = {} /\ queue = << >>
  /\ results = << >> /\ current_url = NoUrl
  /\ enqueued = {} /\ fetched = << >>

\* crawl(url, n) is called: lines 336-342.
CrawlCall ==
  /\ cpc = "idle"
  /\ \E url \in CrawlStarts, n \in CrawlMaxPages :
       /\ cargs' = [url |-> url, max_pages |-> n]
       /\ max_pages' = ClampPages(n)
       /\ domain' = url.netloc
       /\ queue' = <<url>>
       /\ enqueued' = {url}
  /\ cpc' = "loop"
  /\ visited' = {} /\ results' = << >> /\ fetched' = << >>
  /\ UNCHANGED <<current_url, fetchVars>>

\* while queue and len(visited) < max_pages
Looping == queue # << >> /\ Cardinality(visited) < max_pages

\* The loop condition is false: the crawl returns (lines 383-...).
CrawlExit ==
  /\ cpc = "loop" /\ ~Looping
  /\ cpc' = "done"
  /\ UNCHANGED <<cargs, max_pages, domain, visited, queue, results,
                 current_url, enqueued, fetched, fetchVars>>

\* (mutant) a URL visited already is left at the head of the queue
CrawlSkipKeep ==
  /\ cpc = "loop" /\ Looping
  /\ Normalize(Head(queue)) \in visited
  /\ current_url' = Head(queue)
  /\ UNCHANGED <<cpc, cargs, max_pages, domain, visited, queue, results,
                 enqueued, fetched, fetchVars>>

\* Lines 345-350: the popped URL was visited already.
CrawlSkip ==
  /\ cpc = "loop" /\ Looping
  /\ Normalize(Head(queue)) \in visited
  /\ current_url' = Head(queue)
  /\ queue' = Tail(queue)
  /\ UNCHANGED <<cpc, cargs, max_pages, domain, visited, results,
                 enqueued, fetched, fetchVars>>

\* (mutant) the URL is marked visited as it was popped, not normalized
CrawlFetchRaw ==
  /\ cpc = "loop" /\ Looping
  /\ Normalize(Head(queue)) \notin visited
  /\ current_url' = Head(queue)
  /\ queue' = Tail(queue)
  /\ visited' = visited \cup {Head(queue)}
  /\ FetchBegin(CrawlSlot, Head(queue))
  /\ nfetch' = nfetch + 1
  /\ fetched' = Append(fetched, Head(queue))
  /\ cpc' = "fetch"
  /\ UNCHANGED <<cargs, max_pages, domain, results, enqueued, mono, dns, netlog>>

\* Lines 345-353: the popped URL is marked visited and _fetch is called.
CrawlFetch ==
  /\ cpc = "loop" /\ Looping
  /\ Normalize(Head(queue)) \notin visited
  /\ current_url' = Head(queue)
  /\ queue' = Tail(queue)
  /\ visited' = visited \cup {Normalize(Head(queue))}
  /\ FetchBegin(CrawlSlot, Head(queue))
  /\ nfetch' = nfetch + 1
  /\ fetched' = Append(fetched, Head(queue))
  /\ cpc' = "fetch"
  /\ UNCHANGED <<cargs, max_pages, domain, results, enqueued, mono, dns, netlog>>

\* (mutant) a fetch error ends the crawl, nothing is recorded
CrawlErrorAbort ==
  /\ cpc = "fetch" /\ fetch[CrawlSlot].pc = "done"
  /\ fetch[CrawlSlot].res.error # NoError
  /\ cpc' = "done"
  /\ UNCHANGED <<cargs, max_pages, domain, visited, queue, results,
                 current_url, enqueued, fetched, fetchVars>>

\* Lines 354-356: _fetch returned an error.
CrawlError ==
  /\ cpc = "fetch" /\ fetch[CrawlSlot].pc = "done"
  /\ fetch[CrawlSlot].res.error # NoError
  /\ results' = Append(results, Result(current_url, "error", NoHtml))
  /\ cpc' = "loop"
  /\ UNCHANGED <<cargs, max_pages, domain, visited, queue, current_url,
                 enqueued, fetched, fetchVars>>

\* Lines 358-381: _fetch returned the page; its content is recorded and its
\* same-domain links are appended to the queue.
CrawlPage ==
  /\ cpc = "fetch" /\ fetch[CrawlSlot].pc = "done"
  /\ fetch[CrawlSlot].res.error = NoError
  /\ LET html == fetch[CrawlSlot].res.html
         found == Discover(<< >>, Links(html), 1, current_url, domain, visited)
     IN /\ results' = Append(results,
             Result(current_url, IF Matches(html) THEN "content" ELSE "nomatch", html))
        /\ queue' = queue \o found
        /\ enqueued' = enqueued \cup { found[i] : i \in DOMAIN found }
  /\ cpc' = "loop"
  /\ UNCHANGED <<cargs, max_pages, domain, visited, current_url, fetched, fetchVars>>

\* The network's answers to the crawl's GET.
CrawlRedirect ==
  /\ \E to \in {UrlB} : FetchRedirect(CrawlSlot, to)
  /\ UNCHANGED crawlVars
CrawlOk ==
  /\ FetchOk(CrawlSlot, PageOf(fetch[CrawlSlot].cur))
  /\ UNCHANGED crawlVars
CrawlFail ==
  /\ FetchFail(CrawlSlot)
  /\ UNCHANGED crawlVars

\* Model bound.
MaxRedirected == 3     \* fetches of one crawl that the servers redirect

\* A redirect of one of the first MaxRedirected fetches of the crawl.
CrawlRedirectEarly == Len(fetched) <= MaxRedirected /\ CrawlRedirect

\* The steps of the crawl's own code, and the answers of the network to its
\* GET (the client has a timeout: every GET ends).
CrawlStep == CrawlExit \/ CrawlSkip \/ CrawlFetch \/ CrawlError \/ CrawlPage
CrawlAnswer == CrawlOk \/ CrawlFail

\* ========================================================================
\* BrowserManager (src/app/browser.py) and the browser tools
\* (src/app/browser_tools.py)
\* ========================================================================
\* Model bounds.
MaxBrowsers == 1       \* browsers launched in one behaviour
MaxContexts == 2       \* browser contexts created in one behaviour

None == 0

\* How an awaited Playwright call ends.  A failed context.close() may have
\* closed the context or left it open.
CloseOutcomes == {"ok", "fail_closed", "fail_open"}
CallOutcomes == {"ok", "fail"}

\* context c and its pages are closed
Closed(cs, ps, c) ==
  [contexts |-> [cs EXCEPT ![c].open = FALSE],
   pages |-> [i \in DOMAIN ps |->
                IF ps[i].context = c THEN [ps[i] EXCEPT !.open = FALSE] ELSE ps[i]]]

\* `await self._context.close()` inside try/except Exception: pass
\* (lines 46-50 and 83-87): the contexts and the pages afterwards.
CloseContext(cs, ps, c, co) ==
  IF c # None /\ cs[c].open /\ co # "fail_open"
  THEN Closed(cs, ps, c)
  ELSE [contexts |-> cs, pages |-> ps]

\* self._page.is_closed()
IsClosed(ps, p) == ~ps[p].open

\* _reset_context(), lines 82-91, with self._browser = b among the browsers
\* bs, when the awaited calls end as co (context.close), xo (new_context)
\* and po (new_page):
\* the fields and the browser's objects afterwards, and whether it raised.
ResetContext(bs, b, co, xo, po) ==
  LET shut == CloseContext(contexts, pages, context, co)
      opened == Append(shut.contexts, [browser |-> b, open |-> TRUE])
      c == Len(opened)
      stay == [context |-> context, page |-> page, contexts |-> shut.contexts,
               pages |-> shut.pages, raised |-> TRUE,
               closefail |-> context # None /\ contexts[context].open /\ co # "ok"]
  IN
  IF b = None THEN stay                     \* RuntimeError("Browser not started")
  ELSE IF xo # "ok" \/ ~bs[b].connected \/ Len(contexts) >= MaxContexts
  THEN stay                                 \* new_context raised
  ELSE IF po # "ok"
  THEN [stay EXCEPT !.context = c, !.contexts = opened]   \* new_page raised
  ELSE [stay EXCEPT !.context = c, !.contexts = opened, !.raised = FALSE,
                    !.pages = Append(shut.pages, [context |-> c, open |-> TRUE]),
                    !.page = Len(shut.pages) + 1]

\* What a _reset_context did (history).
NoReset == [ran |-> FALSE, raised |-> FALSE, closefail |-> FALSE, before |-> None]
Reset(r) == [ran |-> TRUE, raised |-> r.raised, closefail |-> r.closefail,
             before |-> page]

\* What a stop() did (history): the steps whose object was not None, the
\* steps it attempted, and whether an exception left it.
NoTeardown == [ran |-> FALSE, raised |-> FALSE, due |-> {}, tried |-> {}]

NoFailure == [page |-> None, mark |-> 0, raised |-> FALSE]
NoReturn == [page |-> None, after |-> NoFailure]

\* self._browser is not None and self._browser.is_connected()
IsAlive == browser # None /\ browsers[browser].connected

InitBrowserVars ==
  /\ playwright = None /\ browser = None /\ context = None /\ page = None
  /\ browsers = << >> /\ contexts = << >> /\ pages = << >>
  /\ tools = FALSE /\ tpc = "idle" /\ held = None
  /\ destroyed = NoFailure /\ returned = NoReturn /\ resets = NoReset
  /\ session = "no" /\ teardown = NoTeardown /\ tresult = "none"

\* What _reset_context changes.
Install(r) ==
  /\ context' = r.context /\ page' = r.page
  /\ contexts' = r.contexts /\ pages' = r.pages
  /\ resets' = Reset(r)

\* (mutant) the except clause leaves self._browser as it is
StartFailedKeep(b) == b

\* except Exception, lines 40-43: self._browser after a failed start(),
\* b being the browser launched (None when the launch failed)
StartFailed(b) == None

\* session after a start() that failed
Broken == IF session \in {"no", "broken"} THEN "broken" ELSE "rebroken"

\* start(), lines 31-43 (Playwright is installed).  async_playwright().start()
\* ends as wo, chromium.launch as lo.
Start ==
  /\ tpc = "idle"
  /\ \E wo \in CallOutcomes, lo \in CallOutcomes :
       IF wo # "ok" \/ lo # "ok" \/ Len(browsers) >= MaxBrowsers
       THEN /\ playwright' = None /\ browser' = StartFailed(None)
            /\ session' = Broken
            /\ UNCHANGED <<context, page, browsers, contexts, pages, resets>>
       ELSE LET bs == Append(browsers, [connected |-> TRUE]) IN
            \E co \in CloseOutcomes, xo \in CallOutcomes, po \in CallOutcomes :
              LET r == ResetContext(bs, Len(bs), co, xo, po) IN
              /\ browsers' = bs
              /\ Install(r)
              /\ IF r.raised
                 THEN /\ playwright' = None /\ browser' = StartFailed(Len(bs))
                      /\ session' = Broken
                 ELSE /\ playwright' = Len(bs) /\ browser' = Len(bs)
                      /\ session' = "ready"
  /\ destroyed' = NoFailure
  /\ UNCHANGED <<tools, tpc, held, returned, teardown, tresult>>

\* build_agent: browser_manager.get_browser_tools() (browser.py:93-98)
BuildAgent ==
  /\ ~tools /\ IsAlive
  /\ tools' = TRUE
  /\ UNCHANGED <<playwright, browser, context, page, browsers, contexts,
                 pages, tpc, held, destroyed, returned, resets,
                 session, teardown, tresult>>

\* The steps of stop() whose object is not None.
Due ==
  (IF context # None THEN {"context"} ELSE {})
    \cup (IF browser # None THEN {"browser"} ELSE {})
    \cup (IF playwright # None THEN {"playwright"} ELSE {})

\* stop(), lines 45-55.  context.close() ends as co, browser.close() as bo
\* and playwright.stop() as so; only the first is inside a try, so when
\* browser.close() raises, the exception leaves stop() and
\* playwright.stop() is not called.
Stop ==
  /\ tpc = "idle"
  /\ \E co \in CloseOutcomes, bo \in CallOutcomes, so \in CallOutcomes :
       LET shut == CloseContext(contexts, pages, context, co)
           braised == browser # None /\ bo # "ok"
       IN
       /\ teardown' =
            [ran |-> TRUE, due |-> Due,
             tried |-> IF braised THEN Due \ {"playwright"} ELSE Due,
             raised |-> braised \/ (playwright # None /\ so # "ok")]
       /\ IF browser # None /\ browsers[browser].connected /\ bo = "ok"
          THEN /\ browsers' = [browsers EXCEPT ![browser].connected = FALSE]
               /\ contexts' = [i \in DOMAIN shut.contexts |->
                    IF shut.contexts[i].browser = browser
                    THEN [shut.contexts[i] EXCEPT !.open = FALSE]
                    ELSE shut.contexts[i]]
               /\ pages' = [i \in DOMAIN shut.pages |->
                    IF shut.contexts[shut.pages[i].context].browser = browser
                    THEN [shut.pages[i] EXCEPT !.open = FALSE] ELSE shut.pages[i]]
          ELSE /\ browsers' = browsers
               /\ contexts' = shut.contexts /\ pages' = shut.pages
  /\ destroyed' = NoFailure
  /\ UNCHANGED <<playwright, browser, context, page, tools, tpc, held,
                 returned, resets, session, tresult>>

\* get_page(), lines 69-74: the current page when there is one and it is
\* not closed (nothing changes), or else _reset_context().
GetPageResult(co, xo, po) ==
  IF page # None /\ ~IsClosed(pages, page)
  THEN [context |-> context, page |-> page, contexts |-> contexts,
        pages |-> pages, raised |-> FALSE, closefail |-> FALSE]
  ELSE ResetContext(browsers, browser, co, xo, po)

GetPageCall(r) ==
  /\ context' = r.context /\ page' = r.page
  /\ contexts' = r.contexts /\ pages' = r.pages
  /\ resets' = IF page # None /\ ~IsClosed(pages, page) THEN resets ELSE Reset(r)
  /\ returned' = IF r.raised THEN NoReturn
                 ELSE [page |-> r.page, after |-> destroyed]
  /\ destroyed' = NoFailure

\* manager.get_page() called on its own
GetPage ==
  /\ tpc = "idle"
  /\ \E co \in CloseOutcomes, xo \in CallOutcomes, po \in CallOutcomes :
       GetPageCall(GetPageResult(co, xo, po))
  /\ UNCHANGED <<playwright, browser, browsers, tools, tpc, held,
                 session, teardown, tresult>>

\* manager.reset_page() called on its own, lines 76-80
ResetPage ==
  /\ tpc = "idle"
  /\ \E co \in CloseOutcomes, xo \in CallOutcomes, po \in CallOutcomes :
       Install(ResetContext(browsers, browser, co, xo, po))
  /\ destroyed' = NoFailure
  /\ UNCHANGED <<playwright, browser, browsers, tools, tpc, held, returned,
                 session, teardown, tresult>>

\* A browser tool is called: `page = await manager.get_page()`
\* (browser_tools.py:28, 50, 72, 101, 120, 147, 161).  When get_page raises,
\* the tool returns an error text.
ToolGetPage ==
  /\ tools /\ tpc = "idle"
  /\ \E co \in CloseOutcomes, xo \in CallOutcomes, po \in CallOutcomes :
       LET r == GetPageResult(co, xo, po) IN
       /\ GetPageCall(r)
       /\ IF r.raised THEN tpc' = "idle" /\ held' = None /\ tresult' = "text"
                      ELSE tpc' = "page" /\ held' = r.page /\ tresult' = "running"
  /\ UNCHANGED <<playwright, browser, browsers, tools, session, teardown>>

\* The tool's operation on the page ends: it returns, times out, or raises
\* a PlaywrightError other than context-destroyed.
ToolReturn ==
  /\ tpc = "page"
  /\ tpc' = "idle" /\ held' = None
  /\ tresult' = "text"
  /\ destroyed' = NoFailure
  /\ UNCHANGED <<playwright, browser, context, page, browsers, contexts,
                 pages, tools, returned, resets, session, teardown>>

\* The tool's operation raises "Execution context was destroyed": the tool
\* calls manager.reset_page() (browser_tools.py:38-41 and alike).
ToolDestroyed ==
  /\ tpc = "page" /\ ~IsClosed(pages, held)
  /\ \E co \in CloseOutcomes, xo \in CallOutcomes, po \in CallOutcomes :
       LET r == ResetContext(browsers, browser, co, xo, po) IN
       /\ Install(r)
       /\ destroyed' = [page |-> held, mark |-> Len(pages), raised |-> r.raised]
       /\ tresult' = IF r.raised THEN "raised" ELSE "navigate_again"
  /\ tpc' = "idle" /\ held' = None
  /\ UNCHANGED <<playwright, browser, browsers, tools, returned,
                 session, teardown>>

\* The browser process dies: its contexts and pages are gone.
Crash ==
  /\ \E b \in DOMAIN browsers :
       /\ browsers[b].connected
       /\ browsers' = [browsers EXCEPT ![b].connected = FALSE]
       /\ contexts' = [i \in DOMAIN contexts |->
            IF contexts[i].browser = b
            THEN [contexts[i] EXCEPT !.open = FALSE] ELSE contexts[i]]
       /\ pages' = [i \in DOMAIN pages |->
            IF contexts[pages[i].context].browser = b
            THEN [pages[i] EXCEPT !.open = FALSE] ELSE pages[i]]
  /\ UNCHANGED <<playwright, browser, context, page, tools, tpc, held,
                 destroyed, returned, resets, session, teardown, tresult>>

\* ------------------------------------------------------------------------
\* get_page() and reset_page() called by concurrent requests: every await of
\* _reset_context is a point where another caller runs.
\* ------------------------------------------------------------------------
\* Model bound.
MaxCalls == 3          \* get_page()/reset_page() calls started in one behaviour

Callers == {"r1", "r2"}
Ops == {"get_page", "reset_page"}

\* A call: pc is "idle", "close" (in `await self._context.close()`),
\* "new_context" (in `await self._browser.new_context(...)`), "new_page" (in
\* `await self._context.new_page()`) or "done"; target is the context the
\* pending close or new_page was called on; got is the page returned, raised
\* whether the call raised.
IdleCall == [pc |-> "idle", op |-> "none", target |-> None, got |-> None,
             raised |-> FALSE]

InitCallVars ==
  /\ calls = [c \in Callers |-> IdleCall]
  /\ callog = [started |-> 0, failed |-> FALSE, overlapped |-> FALSE]

Raised(call) == [call EXCEPT !.pc = "done", !.raised = TRUE]

\* Lines 88-90, after the close: RuntimeError when there is no browser, or
\* else new_context is called.
AfterClose(call) ==
  IF browser = None THEN Raised(call)
  ELSE [call EXCEPT !.pc = "new_context", !.target = None]

\* Caller c calls get_page() or reset_page(): lines 69-72, 76-78 and 82-85,
\* up to the first await or to the return.
CallBegin(c) ==
  /\ calls[c].pc \in {"idle", "done"}
  /\ callog.started < MaxCalls
  /\ \E op \in Ops :
       LET call == [IdleCall EXCEPT !.op = op] IN
       calls' = [calls EXCEPT ![c] =
         IF op = "get_page" /\ page # None /\ ~IsClosed(pages, page)
         THEN [call EXCEPT !.pc = "done", !.got = page]
         ELSE IF context # None
         THEN [call EXCEPT !.pc = "close", !.target = context]
         ELSE AfterClose(call)]
  /\ callog' = [callog EXCEPT !.started = @ + 1,
       !.overlapped = @ \/ \E d \in Callers \ {c} : calls[d].pc \notin {"idle", "done"}]
  /\ UNCHANGED browserVars

\* The context.close() of caller c ends: lines 85-90.
CallClosed(c) ==
  /\ calls[c].pc = "close"
  /\ \E co \in CloseOutcomes :
       LET shut == CloseContext(contexts, pages, calls[c].target, co) IN
       /\ contexts' = shut.contexts /\ pages' = shut.pages
       /\ callog' = [callog EXCEPT !.failed =
            @ \/ (contexts[calls[c].target].open /\ co # "ok")]
  /\ calls' = [calls EXCEPT ![c] = AfterClose(@)]
  /\ UNCHANGED <<playwright, browser, context, page, browsers, tools, tpc,
                 held, destroyed, returned, resets, session, teardown, tresult>>

\* The new_context() of caller c ends: line 90, and new_page is called on
\* the context just assigned (line 91).
CallNewContext(c) ==
  /\ calls[c].pc = "new_context"
  /\ \E xo \in CallOutcomes :
       IF xo # "ok" \/ ~browsers[browser].connected
       THEN /\ calls' = [calls EXCEPT ![c] = Raised(@)]
            /\ callog' = [callog EXCEPT !.failed = TRUE]
            /\ UNCHANGED <<context, contexts>>
       ELSE /\ contexts' = Append(contexts, [browser |-> browser, open |-> TRUE])
            /\ context' = Len(contexts) + 1
            /\ calls' = [calls EXCEPT ![c].pc = "new_page",
                                      ![c].target = Len(contexts) + 1]
            /\ UNCHANGED callog
  /\ UNCHANGED <<playwright, browser, page, browsers, pages, tools, tpc,
                 held, destroyed, returned, resets, session, teardown, tresult>>

\* The new_page() of caller c ends: line 91, then the caller returns
\* self._page (lines 73-74 and 79-80).
CallNewPage(c) ==
  /\ calls[c].pc = "new_page"
  /\ \E po \in CallOutcomes :
       IF po # "ok" \/ ~contexts[calls[c].target].open
       THEN /\ calls' = [calls EXCEPT ![c] = Raised(@)]
            /\ callog' = [callog EXCEPT !.failed = TRUE]
            /\ UNCHANGED <<page, pages>>
       ELSE /\ pages' = Append(pages, [context |-> calls[c].target, open |-> TRUE])
            /\ page' = Len(pages) + 1
            /\ calls' = [calls EXCEPT ![c].pc = "done", ![c].got = Len(pages) + 1]
            /\ UNCHANGED callog
  /\ UNCHANGED <<playwright, browser, context, browsers, contexts, tools, tpc,
                 held, destroyed, returned, resets, session, teardown, tresult>>

\* start() as the lifespan runs it: once, before any request is served.
SessionStart == session = "no" /\ Start

\* ========================================================================
\* The streaming relay: event_generator (src/app/routes.py:32-61)
\* ========================================================================
\* Model bound.
MaxEvents == 3         \* events the agent produces in one stream

AGENT_REQUEST_TIMEOUT == 120
ShortTimeout == 30
Timeouts == {AGENT_REQUEST_TIMEOUT, ShortTimeout}

\* _sse(event, data)
Sse(event, data) == [type |-> event, content |-> data]

RecursionMessage == "Agent exceeded maximum reasoning steps. Try a simpler prompt."
InternalMessage == "An internal error occurred."
\* f"Request timed out after {timeout} seconds."
TimeoutMessage(t) ==
  CASE t = AGENT_REQUEST_TIMEOUT -> "Request timed out after 120 seconds."
    [] t = ShortTimeout -> "Request timed out after 30 seconds."

\* The events of agent.astream_events: a model chunk with or without text,
\* a tool starting or ending, and a kind the relay has no branch for.
Event(kind, data) == [event |-> kind, data |-> data]
AgentEvents ==
  { Event("on_chat_model_stream", c) : c \in {"", "Hello"} }
    \cup { Event(k, "scrape") : k \in {"on_tool_start", "on_tool_end"} }
    \cup { Event("on_chain_start", "agent") }

\* (mutant) a chunk without text is forwarded too
FramesOfAnyChunk(e) ==
  IF e.event = "on_chat_model_stream" THEN <<Sse("token", e.data)>>
  ELSE IF e.event = "on_tool_start" THEN <<Sse("tool_start", e.data)>>
  ELSE IF e.event = "on_tool_end" THEN <<Sse("tool_end", e.data)>>
  ELSE << >>

\* The frames lines 40-48 yield for an event: one or none.
FramesOf(e) ==
  IF e.event = "on_chat_model_stream"
  THEN IF e.data # "" THEN <<Sse("token", e.data)>> ELSE << >>
  ELSE IF e.event = "on_tool_start" THEN <<Sse("tool_start", e.data)>>
  ELSE IF e.event = "on_tool_end" THEN <<Sse("tool_end", e.data)>>
  ELSE << >>

\* The exceptions the agent may raise inside the async for: their class and
\* their message.  "TimeoutError" is the builtin class, raised by the agent
\* itself; "Exception" stands for every other subclass of Exception.
Classes == {"GraphRecursionError", "TimeoutError", "Exception"}
Details == {"KeyError: 'GROQ_API_KEY'", "ConnectionError: 10.0.0.5:5432"}

\* (mutant) the message of the exception is sent to the caller
ErrorMessageDetail(class, detail, t) ==
  IF class = "GraphRecursionError" THEN RecursionMessage
  ELSE IF class = "TimeoutError" THEN TimeoutMessage(t)
  ELSE detail

\* The content of the error frame the except clauses of lines 53-61 yield
\* for an exception of the given class and message.
ErrorMessage(class, detail, t) ==
  IF class = "GraphRecursionError" THEN RecursionMessage
  ELSE IF class = "TimeoutError" THEN TimeoutMessage(t)
  ELSE InternalMessage

\* How the event sequence ended (history).
NoFault == [kind |-> "none", detail |-> ""]
Fault(kind, detail) == [kind |-> kind, detail |-> detail]

InitRelayVars ==
  /\ timeout \in Timeouts
  /\ gen = "new" /\ frames = << >> /\ nevents = 0 /\ evlog = << >>
  /\ fault = NoFault

\* The response starts to iterate the generator: lines 33-35.
RelayOpen ==
  /\ gen = "new"
  /\ gen' = "await"
  /\ UNCHANGED <<timeout, frames, nevents, evlog, fault>>

\* The agent produces an event: lines 40-48.  The generator yields its
\* frame, or goes on to wait for the next event when it has no frame.
AgentYields ==
  /\ gen = "await" /\ nevents < MaxEvents
  /\ \E e \in AgentEvents :
       /\ frames' = frames \o FramesOf(e)
       /\ gen' = IF FramesOf(e) = << >> THEN "await" ELSE "yield"
       /\ evlog' = Append(evlog, e)
  /\ nevents' = nevents + 1
  /\ UNCHANGED <<timeout, fault>>

\* The frame was sent and the response asks for the next one.
RelayResume ==
  /\ gen = "yield"
  /\ gen' = "await"
  /\ UNCHANGED <<timeout, frames, nevents, evlog, fault>>

\* The event sequence is exhausted: the timeout block is left, line 50.
AgentExhausted ==
  /\ gen = "await"
  /\ frames' = Append(frames, Sse("done", ""))
  /\ gen' = "last"
  /\ fault' = Fault("exhausted", "")
  /\ UNCHANGED <<timeout, nevents, evlog>>

\* The agent raises an exception: lines 53-61.
AgentRaises ==
  /\ gen = "await"
  /\ \E class \in Classes, detail \in Details :
       /\ frames' = Append(frames, Sse("error", ErrorMessage(class, detail, timeout)))
       /\ fault' = Fault(class, detail)
  /\ gen' = "last"
  /\ UNCHANGED <<timeout, nevents, evlog>>

\* The deadline of asyncio.timeout (line 34) passes while the task waits
\* inside the block: the wait is cancelled, the block raises TimeoutError,
\* lines 56-58.
DeadlineInBlock ==
  /\ gen = "await"
  /\ frames' = Append(frames,
       Sse("error", ErrorMessage("TimeoutError", "", timeout)))
  /\ fault' = Fault("deadline", "")
  /\ gen' = "last"
  /\ UNCHANGED <<timeout, nevents, evlog>>

\* The deadline passes while the generator is suspended at a yield of lines
\* 44-48 and the task is sending the frame: asyncio.timeout cancels the
\* task, the CancelledError is raised in the sender, outside the generator,
\* and the response ends there.
DeadlineAtYield ==
  /\ gen = "yield"
  /\ gen' = "cancelled"
  /\ fault' = Fault("deadline", "")
  /\ UNCHANGED <<timeout, frames, nevents, evlog>>

\* The last frame was sent; the generator returns.
RelayClose ==
  /\ gen = "last"
  /\ gen' = "closed"
  /\ UNCHANGED <<timeout, frames, nevents, evlog, fault>>

\* ========================================================================
\* Specifications
\* ========================================================================
\* The value of a component's variables in the specifications of the others.
IdleRate ==
  /\ rpm = 1 /\ windows = << >> /\ request_count = 0
  /\ now = 0 /\ inflight = 0 /\ reqlog = <<>>
IdleVal ==
  /\ vurl = Url("http", "example.com", "/", "", "") /\ vans = GaiError
  /\ vres = Pending /\ vlookups = 0

IdleFetchVars == InitFetchVars
IdleCrawl == InitCrawlVars
IdleBrowser == InitBrowserVars /\ InitCallVars
IdleRelay ==
  /\ timeout = AGENT_REQUEST_TIMEOUT
  /\ gen = "new" /\ frames = << >> /\ nevents = 0 /\ evlog = << >>
  /\ fault = NoFault

\* ---- the rate limiter under concurrent request handlers
InitRate == InitRateVars /\ IdleVal /\ IdleFetchVars /\ IdleCrawl /\ IdleBrowser /\ IdleRelay
NextRate ==
  \/ DispatchNoKey /\ UNCHANGED exceptRate
  \/ Dispatch /\ UNCHANGED exceptRate
  \/ CallNextReturn /\ UNCHANGED exceptRate
SpecRate == InitRate /\ [][NextRate]_vars

\* ---- the rate limiter and one client that comes back after a rejection
NextRetry ==
  \/ RetryDispatch /\ UNCHANGED exceptRate
  \/ CallNextReturn /\ UNCHANGED exceptRate
SpecRetry == InitRate /\ [][NextRetry]_vars

\* ---- validate_url as a function of the url and of the DNS answer
InitValidate == InitValVars /\ IdleRate /\ IdleFetchVars /\ IdleCrawl /\ IdleBrowser /\ IdleRelay
NextValidate ==
  \/ Validate /\ UNCHANGED exceptVal
SpecValidate == InitValidate /\ [][NextValidate]_vars

\* ---- _fetch called by one tool after the other, while the clock, the DNS
\* ---- and the servers change
InitFetch == InitFetchVars /\ IdleRate /\ IdleVal /\ IdleCrawl /\ IdleBrowser /\ IdleRelay
NextFetch ==
  \/ ToolFetch({"t1"}, FetchUrls) /\ UNCHANGED exceptFetch
  \/ ToolRedirect({"t1"}) /\ UNCHANGED exceptFetch
  \/ ToolOk({"t1"}) /\ UNCHANGED exceptFetch
  \/ ToolFail({"t1"}) /\ UNCHANGED exceptFetch
  \/ CacheClear /\ UNCHANGED exceptFetch
  \/ Tick /\ UNCHANGED exceptFetch
  \/ DnsChange /\ UNCHANGED exceptFetch
SpecFetch == InitFetch /\ [][NextFetch]_vars

\* ---- the cache under two tools whose _fetch calls interleave at the await
InitCache == InitFetchVars /\ IdleRate /\ IdleVal /\ IdleCrawl /\ IdleBrowser /\ IdleRelay
NextCache ==
  \/ ToolFetch(ToolSlots, {UrlA, UrlB}) /\ UNCHANGED exceptFetch
  \/ ToolOk(ToolSlots) /\ UNCHANGED exceptFetch
  \/ ToolFail(ToolSlots) /\ UNCHANGED exceptFetch
  \/ CacheClear /\ UNCHANGED exceptFetch
  \/ Tick /\ UNCHANGED exceptFetch
SpecCache == InitCache /\ [][NextCache]_vars

\* ---- one crawl of the site, the servers failing or redirecting at will
InitCrawl == InitCrawlVars /\ InitFetchVars /\ IdleRate /\ IdleVal /\ IdleBrowser /\ IdleRelay
NextCrawl ==
  \/ CrawlCall /\ UNCHANGED exceptCrawl
  \/ CrawlExit /\ UNCHANGED exceptCrawl
  \/ CrawlSkip /\ UNCHANGED exceptCrawl
  \/ CrawlFetch /\ UNCHANGED exceptCrawl
  \/ CrawlError /\ UNCHANGED exceptCrawl
  \/ CrawlPage /\ UNCHANGED exceptCrawl
  \/ CrawlRedirect /\ UNCHANGED exceptCrawl
  \/ CrawlOk /\ UNCHANGED exceptCrawl
  \/ CrawlFail /\ UNCHANGED exceptCrawl
SpecCrawl == InitCrawl /\ [][NextCrawl]_vars

\* ---- the same crawl, when its code keeps running and every GET ends; the
\* ---- servers redirect the first MaxRedirected fetches only
NextCrawlLive ==
  \/ CrawlCall /\ UNCHANGED exceptCrawl
  \/ CrawlExit /\ UNCHANGED exceptCrawl
  \/ CrawlSkip /\ UNCHANGED exceptCrawl
  \/ CrawlFetch /\ UNCHANGED exceptCrawl
  \/ CrawlError /\ UNCHANGED exceptCrawl
  \/ CrawlPage /\ UNCHANGED exceptCrawl
  \/ CrawlRedirectEarly /\ UNCHANGED exceptCrawl
  \/ CrawlOk /\ UNCHANGED exceptCrawl
  \/ CrawlFail /\ UNCHANGED exceptCrawl
SpecCrawlLive ==
  /\ InitCrawl /\ [][NextCrawlLive]_vars
  /\ WF_vars(CrawlStep /\ UNCHANGED exceptCrawl)
  /\ WF_vars(CrawlAnswer /\ UNCHANGED exceptCrawl)

\* ---- the browser session: calls of the manager and of the browser tools,
\* ---- one at a time, every awaited Playwright call free to fail
InitBrowser ==
  /\ InitBrowserVars /\ InitCallVars /\ IdleRate /\ IdleVal /\ IdleFetchVars /\ IdleCrawl
  /\ IdleRelay
NextBrowser ==
  \/ Start /\ UNCHANGED exceptBrowser
  \/ BuildAgent /\ UNCHANGED exceptBrowser
  \/ Stop /\ UNCHANGED exceptBrowser
  \/ GetPage /\ UNCHANGED exceptBrowser
  \/ ResetPage /\ UNCHANGED exceptBrowser
  \/ ToolGetPage /\ UNCHANGED exceptBrowser
  \/ ToolReturn /\ UNCHANGED exceptBrowser
  \/ ToolDestroyed /\ UNCHANGED exceptBrowser
  \/ Crash /\ UNCHANGED exceptBrowser
SpecBrowser == InitBrowser /\ [][NextBrowser]_vars

\* ---- get_page()/reset_page() calls of two requests, interleaved at the
\* ---- awaits, on the session start() has set up
InitSession == InitBrowser
NextSession ==
  \/ SessionStart /\ UNCHANGED exceptBrowser
  \/ (\E c \in Callers : CallBegin(c)) /\ UNCHANGED exceptCalls
  \/ (\E c \in Callers : CallClosed(c)) /\ UNCHANGED exceptCalls
  \/ (\E c \in Callers : CallNewContext(c)) /\ UNCHANGED exceptCalls
  \/ (\E c \in Callers : CallNewPage(c)) /\ UNCHANGED exceptCalls
SpecSession == InitSession /\ [][NextSession]_vars

\* ---- one stream of /run-mission: the agent's events, its faults and the
\* ---- deadline
InitRelay ==
  /\ InitRelayVars /\ IdleRate /\ IdleVal /\ IdleFetchVars /\ IdleCrawl
  /\ IdleBrowser
NextRelay ==
  \/ RelayOpen /\ UNCHANGED exceptRelay
  \/ AgentYields /\ UNCHANGED exceptRelay
  \/ RelayResume /\ UNCHANGED exceptRelay
  \/ AgentExhausted /\ UNCHANGED exceptRelay
  \/ AgentRaises /\ UNCHANGED exceptRelay
  \/ DeadlineInBlock /\ UNCHANGED exceptRelay
  \/ DeadlineAtYield /\ UNCHANGED exceptRelay
  \/ RelayClose /\ UNCHANGED exceptRelay
SpecRelay == InitRelay /\ [][NextRelay]_vars

\* ========================================================================
\* Properties
\* ========================================================================
\* ---- properties of the rate limiter ------------------------------------
\* The requests of key k, in order of arrival.
KeyLog(k) == SelectSeq(reqlog, LAMBDA r : r.key = k)
\* The admitted requests of key k, in order of arrival.
Admitted(k) == SelectSeq(reqlog, LAMBDA r : r.key = k /\ r.status = 200)

\* Request i of log L found the window of its key empty after the purge:
\* no request of the key was admitted in the 60 s before it.
FreshAt(L, i) ==
  \A h \in 1..(i - 1) : L[h].status = 200 => L[h].t < L[i].t - WindowTicks

\* Requests i..j of L all arrive within 60 s of request i.
Within(L, i, j) == \A m \in i..j : L[m].t - L[i].t <= WindowTicks

Rejected(r) == r.status = 429 /\ r.retry >= 1

Sorted(w) == \A i \in 1..(Len(w) - 1) : w[i] <= w[i + 1]

\* The timestamps window k must hold: those of the admitted requests of k
\* that are not older than 60 s at the last request of k.
Expected(k) ==
  LET L == KeyLog(k)
      T == L[Len(L)].t
      A == SelectSeq(L, LAMBDA r : r.status = 200 /\ r.t >= T - WindowTicks)
  IN  [ i \in 1..Len(A) |-> A[i].t ]

\* C2: every window holds at most rpm timestamps, in non-decreasing order;
\* no more than rpm requests of one key are admitted within any 60 s span;
\* and no update is lost: a window holds exactly the admitted timestamps of
\* its key that were within the lookback at the key's last request.
C2_WindowInvariant ==
  /\ \A k \in DOMAIN windows :
       /\ Len(windows[k]) <= rpm
       /\ Sorted(windows[k])
       /\ KeyLog(k) # <<>> => windows[k] = Expected(k)
  /\ \A k \in Keys :
       LET A == Admitted(k) IN
       /\ \A i \in 1..(Len(A) - rpm) : A[i + rpm].t - A[i].t > WindowTicks
       /\ (k \notin DOMAIN windows /\ A # <<>>)
            => A[Len(A)].t < now - WindowTicks

\* Two handlers are suspended in call_next while a key's window is full,
\* one of its requests was rejected and an old timestamp was purged.
C2_Witness ==
  /\ inflight >= 2
  /\ \E k \in DOMAIN windows :
       /\ Len(windows[k]) = rpm
       /\ Len(Admitted(k)) > rpm
       /\ \E i \in 1..Len(reqlog) : reqlog[i].key = k /\ reqlog[i].status = 429

\* ---- properties of validate_url -----------------------------------------
\* The ranges the claims call loopback, private and link-local (RFC 1122,
\* RFC 1918, RFC 3927, RFC 4193, RFC 4291).
LoopbackNets == { Net(V4(127, 0, 0, 0), 8), Net(V6(<<0, 0, 0, 0, 0, 0, 0, 1>>), 128) }
PrivateNets == { Net(V4(10, 0, 0, 0), 8), Net(V4(172, 16, 0, 0), 12),
                 Net(V4(192, 168, 0, 0), 16),
                 Net(V6(<<64512, 0, 0, 0, 0, 0, 0, 0>>), 7) }      \* fc00::/7
LinkLocalNets == { Net(V4(169, 254, 0, 0), 16),
                   Net(V6(<<65152, 0, 0, 0, 0, 0, 0, 0>>), 10) }   \* fe80::/10
Internal(ip) ==
  \E n \in LoopbackNets \cup PrivateNets \cup LinkLocalNets : InNet(ip, n)

\* The hostname of vurl resolves, and only to internal addresses.
ResolvesOnlyInternal ==
  /\ Hostname(vurl.netloc) # ""
  /\ vans.ok
  /\ \A j \in 1..Len(vans.addrs) : Internal(vans.addrs[j])

\* C4: a URL whose hostname resolves exclusively to private, loopback or
\* link-local addresses (IPv4 and IPv6) is rejected by validate_url,
\* whatever its scheme.
C4_InternalRejected ==
  (vres # Pending /\ ResolvesOnlyInternal) => vres # NoError

\* The part of C4 the code does guarantee: the same for IPv4 addresses.
C4_InternalV4Rejected ==
  (vres # Pending /\ ResolvesOnlyInternal
     /\ \A j \in 1..Len(vans.addrs) : vans.addrs[j].v = 4)
     => vres # NoError

\* ---- properties of _fetch and of the cache ------------------------------
\* Slot s starts an invocation of _fetch in this step.
Begins(s) == fetch[s].pc \in {"idle", "done"} /\ fetch'[s] # fetch[s]
\* Slot s completes its GET in this step.
Completes(s) == fetch[s].pc = "get" /\ fetch'[s].pc = "done"

\* The age of the entry of url in the cache exceeds the TTL.
TooOld(url) == mono - cache[url].ts > CACHE_TTL
\* An unexpired, uncleared entry of url exists.
Fresh(url) == url \in DOMAIN cache /\ ~TooOld(url)

BlockKinds == {"scheme", "hostname", "resolve", "private"}

\* C3: an invocation of _fetch returns a cached body, reads or writes the
\* cache, or issues a network request only if validate_url passed in that
\* same invocation; an invocation the validator blocks returns the block
\* reason and has made no network call and no cache read or write.
C3_ValidationGate ==
  \A s \in Slots :
    LET f == fetch[s] IN
    /\ (f.res.html # NoHtml \/ f.gets > 0 \/ f.reqs # {} \/ f.look # "none" \/ f.wrote)
         => f.valid
    /\ (f.pc = "done" /\ ~f.valid)
         => /\ f.res.html = NoHtml /\ f.res.error.kind \in BlockKinds
            /\ f.gets = 0 /\ f.reqs = {} /\ f.look = "none" /\ ~f.wrote
    /\ (f.pc = "done" /\ f.res.error.kind \in BlockKinds) => ~f.valid

\* A fetch was blocked because its host now resolves to a private address,
\* while an unexpired cache entry of an earlier fetch of the URL exists.
C3_Witness ==
  \E s \in Slots :
    /\ fetch[s].pc = "done"
    /\ fetch[s].res.error.kind = "private"
    /\ Fresh(fetch[s].url)

\* C5: a fetch that passes validation issues a network call (exactly one GET)
\* exactly when no unexpired, uncleared entry of its URL exists, and otherwise
\* returns the cached body without a network call; the cached body of a URL
\* is the body the last successful network fetch of that URL returned.
C5_HitMiss ==
  /\ [][ \A s \in Slots :
           (Begins(s) /\ fetch'[s].valid) =>
             LET u == fetch'[s].url IN
             IF Fresh(u)
             THEN /\ fetch'[s].pc = "done"
                  /\ fetch'[s].res = Ok(netlog[u].html)
                  /\ fetch'[s].gets = 0 /\ fetch'[s].reqs = {}
             ELSE /\ fetch'[s].pc = "get"
                  /\ fetch'[s].gets = 1 ]_vars
  /\ [][ \A s \in Slots : fetch'[s].gets <= 1
                          /\ (Completes(s) => fetch'[s].gets = fetch[s].gets) ]_vars
  /\ [](\A u \in DOMAIN cache : u \in DOMAIN netlog /\ cache[u] = netlog[u])

\* A second fetch of a URL, later but within the TTL of the first, returned
\* the body of the first without a network call.
C5_Witness ==
  \E s \in Slots :
    LET f == fetch[s] IN
    /\ f.pc = "done" /\ f.valid /\ f.gets = 0
    /\ f.url \in DOMAIN netlog
    /\ f.res = Ok(netlog[f.url].html)
    /\ mono > netlog[f.url].ts
    /\ nfetch = 2

\* C6: _cache_get never returns a body whose entry is older than the TTL; on
\* such a lookup the entry of that key is removed and absent is returned; a
\* lookup leaves the entries of all other keys, expired or not, untouched;
\* _cache_set overwrites the entry of its key unconditionally with
\* timestamp = now and leaves the other keys untouched.
C6_CacheTtl ==
  [][ \A s \in Slots :
        /\ (Begins(s) /\ fetch'[s].valid) =>
             LET u == fetch'[s].url IN
             /\ (u \in DOMAIN cache /\ TooOld(u))
                  => (u \notin DOMAIN cache' /\ fetch'[s].res.html = NoHtml)
             /\ fetch'[s].res.html # NoHtml
                  => (u \in DOMAIN cache /\ ~TooOld(u)
                      /\ fetch'[s].res.html = cache[u].html)
             /\ \A k \in (DOMAIN cache) \ {u} :
                  k \in DOMAIN cache' /\ cache'[k] = cache[k]
             /\ DOMAIN cache' \subseteq DOMAIN cache
             /\ (u \in DOMAIN cache /\ ~TooOld(u)) => cache' = cache
        /\ Completes(s) =>
             LET u == fetch[s].url IN
             IF fetch'[s].wrote
             THEN /\ u \in DOMAIN cache'
                  /\ cache'[u] = [html |-> fetch'[s].res.html, ts |-> mono]
                  /\ DOMAIN cache' = (DOMAIN cache) \cup {u}
                  /\ \A k \in (DOMAIN cache) \ {u} : cache'[k] = cache[k]
             ELSE cache' = cache ]_vars

\* A lookup found the entry of its key expired and removed it while the
\* expired entry of another key stays in the cache.
C6_Witness ==
  \E s \in Slots :
    /\ fetch[s].look = "expired"
    /\ fetch[s].url \notin DOMAIN cache
    /\ \E k \in DOMAIN cache : k # fetch[s].url /\ TooOld(k)

\* ------------------------------------------------------------------------
\* crawl
\* ------------------------------------------------------------------------
\* clamp(n, lo, hi)
Clamp(n, lo, hi) == IF n < lo THEN lo ELSE IF n > hi THEN hi ELSE n

\* C7: in every state of a crawl, |visited| <= clamp(max_pages, 1, 10), and
\* every URL ever placed in the queue (the start URL and every discovered
\* link) has the netloc of the start URL.
C7_CrawlBounds ==
  cpc # "idle" =>
    /\ Cardinality(visited) <= Clamp(cargs.max_pages, 1, 10)
    /\ \A u \in enqueued : u.netloc = cargs.url.netloc
    /\ \A i \in DOMAIN queue : queue[i] \in enqueued

\* A crawl asked for 11 pages has stopped at 10 with links left in the
\* queue, after a page with links to other hosts was processed.
C7_Witness ==
  /\ cpc = "done" /\ cargs.max_pages = 11
  /\ Cardinality(visited) = 10 /\ queue # << >>
  /\ \E i \in DOMAIN results : results[i].html = "hub"
  /\ Cardinality(enqueued) > 10

\* The same-host link targets of a page served at `base`, as absolute URLs.
Targets(html, base) ==
  { u \in { UrlJoin(base, Links(html)[i]) : i \in DOMAIN Links(html) } :
      SameDomain(u, base.netloc) }
\* The http(s) links of the page that lead to another host.
External(html, base) ==
  { u \in { UrlJoin(base, Links(html)[i]) : i \in DOMAIN Links(html) } :
      u.scheme \in {"http", "https"} /\ u.netloc # base.netloc }
\* Every URL the crawl fetched or visited is on the host of the start URL.
Confined ==
  /\ \A i \in DOMAIN fetched : fetched[i].netloc = cargs.url.netloc
  /\ \A v \in visited : v.netloc = cargs.url.netloc

\* C8 as stated: no URL of another domain is fetched, and when the start
\* page links to at least max_pages-1 distinct same-domain pages plus
\* external pages, exactly max_pages pages are visited, none external.
C8_AsStated ==
  cpc # "idle" =>
    /\ Confined
    /\ ( /\ cpc = "done"
         /\ Cardinality(Targets(PageOf(cargs.url), cargs.url)) >= cargs.max_pages - 1
         /\ External(PageOf(cargs.url), cargs.url) # {} )
       => Cardinality(visited) = cargs.max_pages

\* The pages other than the start page that the start page, as it was
\* fetched, links to: its same-host targets with query and fragment stripped.
StartFetched == results # << >> /\ results[1].kind # "error"
StartPages ==
  { Normalize(u) : u \in Targets(results[1].html, cargs.url) }
    \ {Normalize(cargs.url)}

\* C8 (amended): no URL of another netloc is ever passed to _fetch, and with
\* m = clamp(max_pages, 1, 10), when the start page was fetched and links to
\* at least m-1 same-netloc pages that differ from each other and from the
\* start page after query and fragment are stripped, the crawl ends with
\* exactly m pages visited, none of them external.
C8_Confinement ==
  cpc # "idle" =>
    /\ Confined
    /\ ( /\ cpc = "done" /\ StartFetched
         /\ Cardinality(StartPages) >= Clamp(cargs.max_pages, 1, 10) - 1 )
       => Cardinality(visited) = Clamp(cargs.max_pages, 1, 10)

\* A crawl for 3 pages whose start page has more than two same-host links
\* and links to other hosts has ended with 3 pages visited, one of them
\* after a failed fetch.
C8_Witness ==
  /\ cpc = "done" /\ cargs.max_pages = 3 /\ StartFetched
  /\ Cardinality(StartPages) >= 2
  /\ External(results[1].html, cargs.url) # {}
  /\ Cardinality(visited) = 3 /\ Len(fetched) = 3
  /\ \E i \in DOMAIN results : results[i].kind = "error"

\* ------------------------------------------------------------------------
\* Browser session
\* ------------------------------------------------------------------------
LivePages == { i \in DOMAIN pages : pages[i].open }

\* C9: when a browser tool call failed with a context-destroyed error, the
\* next get_page() returns a page created after that failure, never the
\* page that was current during the failed call.
C9_Recovery ==
  returned.after.page # None =>
    /\ returned.page # returned.after.page
    /\ returned.page > returned.after.mark

\* (supporting) C9 holds whenever the reset_page() of the failed call
\* returned instead of raising.
C9_RecoveryAfterReset ==
  (returned.after.page # None /\ ~returned.after.raised)
    => returned.page > returned.after.mark

\* C10: after any sequence of start, get_page, reset_page and stop calls,
\* resets whose context.close() fails included, at most one page is live,
\* and a reset that succeeds installs a newly created page, not the
\* previous one.
C10_OneLivePage ==
  /\ Cardinality(LivePages) <= 1
  /\ (resets.ran /\ ~resets.raised) =>
       /\ page # resets.before
       /\ page = Len(pages)

\* (supporting) the page a successful reset installs is new, and the pages
\* that are live besides self._page belong to contexts the manager no
\* longer refers to.
C10_ResetInstallsNew ==
  /\ (resets.ran /\ ~resets.raised) =>
       /\ page # resets.before
       /\ page = Len(pages)
  /\ \A p \in LivePages : p = page \/ pages[p].context # context

\* ------------------------------------------------------------------------
\* Streaming relay
\* ------------------------------------------------------------------------
Terminal(f) == f.type \in {"done", "error"}
Ended == gen \in {"closed", "cancelled"}
Count(seq, type) == Cardinality({ i \in DOMAIN seq : seq[i].type = type })
\* exactly one done or error frame, and it is the last frame
OneTerminalLast ==
  /\ frames # << >>
  /\ Terminal(Last(frames))
  /\ Count(frames, "done") + Count(frames, "error") = 1

\* C11: when the deadline elapses before the event sequence is exhausted,
\* the stream ends with exactly one error frame, which describes the
\* timeout; there is no done frame and no token, tool_start or tool_end
\* frame after the error frame.
C11_DeadlineFrame ==
  (Ended /\ fault.kind = "deadline") =>
    /\ OneTerminalLast
    /\ Last(frames) = Sse("error", TimeoutMessage(timeout))

\* (supporting) C11 holds when the deadline passes while the generator
\* waits for the agent's next event.
C11_DeadlineWhileWaiting ==
  (gen \in {"last", "closed"} /\ fault.kind = "deadline") =>
    /\ OneTerminalLast
    /\ Last(frames) = Sse("error", TimeoutMessage(timeout))

\* C12: every stream that has ended, whatever the events and the fault,
\* contains exactly one terminal frame, done or error, as its last frame,
\* and done only when the event sequence was exhausted without a fault.
C12_TerminalFrame ==
  Ended =>
    /\ OneTerminalLast
    /\ (Last(frames).type = "done") <=> (fault.kind = "exhausted")

\* (supporting) C12 holds for the streams in which the generator returned.
C12_ClosedStreams ==
  gen \in {"last", "closed"} =>
    /\ OneTerminalLast
    /\ (Last(frames).type = "done") <=> (fault.kind = "exhausted")

\* The three kinds of fault the caller is told about.
KindOf(f) ==
  IF f.kind = "GraphRecursionError" THEN "steps"
  ELSE IF f.kind = "deadline" THEN "deadline"
  ELSE "other"

\* C13: the content of the terminal error frame depends only on the kind
\* of fault and on the configured timeout: the generic message for every
\* other internal fault, whatever its detail, the timeout message for the
\* deadline, and for the step budget a message distinct from both.
C13_ErrorContent ==
  (gen \in {"last", "closed"} /\ Last(frames).type = "error") =>
    /\ KindOf(fault) = "other" => Last(frames).content = InternalMessage
    /\ KindOf(fault) = "deadline" => Last(frames).content = TimeoutMessage(timeout)
    /\ KindOf(fault) = "steps" =>
         /\ Last(frames).content = RecursionMessage
         /\ Last(frames).content \notin {InternalMessage, TimeoutMessage(timeout)}

\* (supporting) no frame carries the message of an exception, and every
\* exception that is neither GraphRecursionError nor TimeoutError yields the
\* generic message.
C13_NoDetail ==
  /\ \A i \in DOMAIN frames : frames[i].content \notin Details
  /\ (gen \in {"last", "closed"} /\ fault.kind = "Exception")
       => Last(frames) = Sse("error", InternalMessage)

\* C14: stop() never raises, and a failure while closing one of context,
\* browser and playwright does not keep it from attempting the later ones.
C14_Teardown ==
  teardown.ran =>
    /\ ~teardown.raised
    /\ teardown.tried = teardown.due

\* (supporting) a failure of context.close() is tolerated: the browser is
\* closed all the same, and stop() raises only when browser.close() or
\* playwright.stop() does.
C14_ContextCloseTolerated ==
  teardown.ran =>
    /\ teardown.due \ {"playwright"} \subseteq teardown.tried
    /\ teardown.raised => teardown.due \cap {"browser", "playwright"} # {}

\* C15: a browser tool returns a string whatever fails (getting the page,
\* the action on the page, the reset after a context-destroyed error); no
\* exception leaves a tool call.
C15_ToolContainment == tresult # "raised"

\* (supporting) an exception leaves a tool call exactly when the
\* reset_page() it calls after a context-destroyed error raises.
C15_EscapesOnlyFromReset ==
  /\ destroyed.page # None => (tresult = "raised" <=> destroyed.raised)
  /\ tpc = "page" => tresult = "running"

\* C16: when start() fails (the launch, or the first context or page), the
\* session is broken: is_alive is false, get_browser_tools() returns no
\* tools, and no get_page() or reset_page() call made afterwards yields a
\* page.
C16_StartFailure ==
  session = "broken" =>
    /\ playwright = None /\ browser = None /\ ~IsAlive
    /\ ~tools /\ tresult = "none"
    /\ page = None /\ LivePages = {}
    /\ returned = NoReturn
    /\ ~(resets.ran /\ ~resets.raised)

\* The browser was launched and its first context created, but start()
\* failed; a get_page() or reset_page() called afterwards has closed that
\* context and raised.
C16_Witness ==
  /\ session = "broken"
  /\ browsers # << >> /\ browsers[1].connected /\ ~teardown.ran
  /\ contexts # << >> /\ ~contexts[1].open
  /\ resets.ran /\ resets.raised

\* ------------------------------------------------------------------------
\* Fetcher: redirects, failures
\* ------------------------------------------------------------------------
\* C17: every request the fetcher sends, the requests that follow a
\* redirect included, goes to a URL the validator has passed, and none goes
\* to a private, loopback or link-local address reached through a redirect.
C17_ValidatedRequests ==
  \A s \in Slots :
    /\ fetch[s].reqs \subseteq {fetch[s].url}
    /\ fetch[s].unsafe = {}

\* (supporting) the first request of an invocation goes to the URL that
\* validate_url has just passed.
C17_FirstRequestValidated ==
  \A s \in Slots :
    fetch[s].gets > 0 =>
      /\ fetch[s].valid /\ fetch[s].gets = 1
      /\ fetch[s].url \in fetch[s].reqs
      /\ fetch[s].hops = 0 => fetch[s].reqs = {fetch[s].url} /\ fetch[s].unsafe = {}


\* ---- the validator's any-address rule ----------------------------------
\* validate_url has returned for a URL whose hostname was resolved.
Answered == vres # Pending /\ Resolves(vurl) /\ vans.ok

\* C18: validate_url rejects a URL as soon as one of the addresses its
\* hostname resolves to is private, loopback or link-local, even when the
\* other addresses are public, and passes only when none is; a scheme other
\* than http/https is rejected before any DNS resolution, and a resolution
\* failure yields a block reason.
C18_AnyAddress ==
  /\ Answered =>
       (vres = NoError <=> \A j \in 1..Len(vans.addrs) : ~Internal(vans.addrs[j]))
  /\ (vres # Pending /\ ~SchemeAllowed(vurl.scheme)) =>
       vres = BlockedScheme(vurl.scheme) /\ vlookups = 0
  /\ (vres # Pending /\ Resolves(vurl) /\ ~vans.ok) =>
       vres = BlockedResolve(Hostname(vurl.netloc))

\* What the code guarantees: the same rule over the networks it lists in
\* _BLOCKED_NETWORKS, reporting the first listed address of the answer.
C18_AnyListedAddress ==
  /\ Answered =>
       /\ vres = NoError <=> \A j \in 1..Len(vans.addrs) : ~IsBlocked(vans.addrs[j])
       /\ vres # NoError => vres = BlockedPrivate(FirstBlocked(vans.addrs))
       /\ vlookups = 1
  /\ (vres # Pending /\ ~SchemeAllowed(vurl.scheme)) =>
       vres = BlockedScheme(vurl.scheme) /\ vlookups = 0
  /\ (vres # Pending /\ Resolves(vurl) /\ ~vans.ok) =>
       vres = BlockedResolve(Hostname(vurl.netloc))

\* A public address first, a listed address second: rejected.
C18_MixedRejected ==
  /\ Answered /\ Len(vans.addrs) = 2
  /\ ~Internal(vans.addrs[1]) /\ IsBlocked(vans.addrs[2])
  /\ vres = BlockedPrivate(vans.addrs[2])


\* ---- failures of _fetch -------------------------------------------------
\* The keys whose cache entry is written (added or replaced) in this step.
Written == { k \in DOMAIN cache' : k \notin DOMAIN cache \/ cache'[k] # cache[k] }

\* C19: an invocation of _fetch calls http_client.get at most once; when it
\* fails (blocked, HTTP error status, network error) it returns an error
\* result without another attempt and writes nothing to the cache; the cache
\* is written only by a successful response, under the URL _fetch was
\* called with.
C19_FailureHandling ==
  /\ [](\A s \in Slots : fetch[s].gets <= 1)
  /\ [][ \A s \in Slots :
           /\ ~Begins(s) => fetch'[s].gets = fetch[s].gets
           /\ (Begins(s) /\ fetch'[s].res.error # NoError) =>
                /\ fetch'[s].pc = "done" /\ fetch'[s].res.html = NoHtml
                /\ fetch'[s].res.error.kind \in BlockKinds
                /\ fetch'[s].gets = 0 /\ Written = {}
           /\ (Completes(s) /\ fetch'[s].res.html = NoHtml) =>
                /\ fetch'[s].res.error
                     \in {HttpStatusError(fetch[s].url), RequestError(fetch[s].url)}
                /\ fetch'[s].reqs = fetch[s].reqs
                /\ ~fetch'[s].wrote /\ cache' = cache ]_vars
  /\ [][ \A k \in Written :
           \E s \in Slots :
             /\ Completes(s) /\ fetch'[s].res.error = NoError
             /\ k = fetch[s].url
             /\ cache'[k].html = fetch'[s].res.html ]_vars

\* After a fetch that succeeded and was cached, a fetch of another URL made
\* its GET, was redirected, failed and returned the error: the cache holds
\* the entry of the first fetch and none for the URL that failed.
C19_Witness ==
  \E s \in Slots :
    /\ fetch[s].pc = "done" /\ fetch[s].gets = 1 /\ fetch[s].hops > 0
    /\ fetch[s].res.error.kind \in {"http", "request"}
    /\ ~fetch[s].wrote
    /\ fetch[s].url \notin DOMAIN cache
    /\ cache # << >> /\ cache = netlog


\* ---- the report of crawl ------------------------------------------------
\* The crawl is at a loop boundary (the while condition is about to be
\* evaluated) or has returned.
AtBoundary == cpc \in {"loop", "done"}

\* The entry the iteration that ends in this step has appended.
Entry == results'[Len(results')]

\* C20: at every loop boundary and at termination the report has one entry
\* per visited page, in visit order, each entry being the content or the
\* error of its own page; a fetch error (on the start page too) adds an
\* error entry and the crawl goes on with the next queued URL.
C20_CrawlReport ==
  /\ [](AtBoundary =>
          /\ Len(results) = Cardinality(visited)
          /\ Len(results) = Len(fetched)
          /\ \A i \in 1..Len(results) :
               /\ results[i].url = fetched[i]
               /\ Normalize(results[i].url) \in visited
               /\ results[i].kind \in {"content", "nomatch", "error"}
               /\ \A j \in 1..Len(results) :
                    Normalize(results[i].url) = Normalize(results[j].url) => i = j)
  /\ [][ (cpc = "fetch" /\ cpc' # "fetch") =>
           /\ cpc' = "loop"
           /\ Len(results') = Len(results) + 1
           /\ \A i \in 1..Len(results) : results'[i] = results[i]
           /\ Entry.url = current_url
           /\ IF fetch[CrawlSlot].res.error # NoError
              THEN Entry.kind = "error" /\ queue' = queue
              ELSE Entry.kind \in {"content", "nomatch"}
                     /\ Entry.html = fetch[CrawlSlot].res.html ]_vars
  /\ [][ cpc' = "done" => (cpc = "done" \/ (cpc = "loop" /\ ~Looping)) ]_vars

\* The crawl returned a report whose second entry is an error and whose
\* third entry is the content of a page visited after the failure.
C20_Witness ==
  /\ cpc = "done" /\ Len(results) >= 3
  /\ results[1].kind = "content"
  /\ results[2].kind = "error"
  /\ results[3].kind = "content"

\* The fetch of the start page failed: the report is that one error entry.
C20_StartPageError ==
  /\ cpc = "done" /\ Len(results) = 1
  /\ results[1] = Result(cargs.url, "error", NoHtml)


\* ---- the order of marking and fetching in crawl -------------------------
\* C21: within one crawl the normalized form of a URL is in visited before
\* _fetch is called for it, so no two fetches of the crawl have the same
\* normalized URL and the crawl calls _fetch at most clamp(max_pages, 1, 10)
\* times.
C21_MarkedBeforeFetch ==
  /\ [](cpc # "idle" =>
          /\ \A i \in DOMAIN fetched : Normalize(fetched[i]) \in visited
          /\ \A i, j \in DOMAIN fetched :
               Normalize(fetched[i]) = Normalize(fetched[j]) => i = j
          /\ Len(fetched) <= Clamp(cargs.max_pages, 1, 10)
          /\ (cpc = "fetch" => Normalize(current_url) \in visited))
  /\ [][ (cpc # "idle" /\ fetched' # fetched) =>
           /\ fetched' = Append(fetched, Head(queue))
           /\ Normalize(Head(queue)) \notin visited
           /\ Normalize(Head(queue)) \in visited'
           /\ fetch'[CrawlSlot].url = Head(queue) ]_vars

\* Two links to the same page, one of them with a query string, were queued
\* and both were popped: the page was fetched once.
C21_Witness ==
  /\ cpc = "done"
  /\ \E u, v \in enqueued :
       /\ u # v /\ Normalize(u) = Normalize(v)
       /\ \A i \in DOMAIN queue : queue[i] \notin {u, v}
       /\ Cardinality({ i \in DOMAIN fetched :
                          Normalize(fetched[i]) = Normalize(u) }) = 1


\* ---- the queue of crawl -------------------------------------------------
\* q is an initial segment of r.
IsPrefix(q, r) == Len(q) <= Len(r) /\ \A i \in DOMAIN q : r[i] = q[i]

\* C22: a discovered link is appended to the queue tail in normalized form
\* and only if it is unseen, so once the start URL has been popped the queue
\* holds no URL with a query string or a fragment and no two entries with
\* the same normalized form; pages are visited in FIFO order.
C22_QueueDiscipline ==
  /\ [](visited # {} =>
          /\ \A i \in DOMAIN queue : queue[i] = Normalize(queue[i])
          /\ \A i, j \in DOMAIN queue :
               Normalize(queue[i]) = Normalize(queue[j]) => i = j)
  /\ [][ (cpc # "idle" /\ queue' # queue) =>
           \/ queue # << >> /\ queue' = Tail(queue) /\ current_url' = Head(queue)
           \/ IsPrefix(queue, queue') ]_vars

\* What the code guarantees: the queue is consumed at its head and extended
\* at its tail, and a link is appended only if its normalized form has not
\* been visited.
C22_Fifo ==
  /\ [][ (cpc # "idle" /\ queue' # queue) =>
           \/ queue # << >> /\ queue' = Tail(queue) /\ current_url' = Head(queue)
           \/ /\ IsPrefix(queue, queue')
              /\ \A i \in (DOMAIN queue') \ (DOMAIN queue) :
                   Normalize(queue'[i]) \notin visited ]_vars
  /\ [](\A i \in DOMAIN queue : queue[i] \in enqueued)


\* ---- termination of crawl -----------------------------------------------
\* C23: whatever the start URL, max_pages and the mix of fetch successes and
\* failures, a crawl of a finite site returns, and it stops when the queue
\* is empty or |visited| has reached the clamped max_pages.
C23_Termination ==
  /\ (cpc \in {"loop", "fetch"}) ~> (cpc = "done")
  /\ [](cpc = "done" =>
          \/ queue = << >>
          \/ Cardinality(visited) = Clamp(cargs.max_pages, 1, 10))
  /\ [][cpc' = "done" => ~Looping]_vars

\* A crawl has returned with an empty queue and fewer pages than asked for,
\* after fetches that failed and fetches that succeeded.
C23_Witness ==
  /\ cpc = "done" /\ queue = << >>
  /\ Cardinality(visited) < Clamp(cargs.max_pages, 1, 10)
  /\ \E i, j \in DOMAIN results :
       results[i].kind = "error" /\ results[j].kind = "content"


\* ---- concurrent callers of the browser session -------------------------
LiveContexts == { i \in DOMAIN contexts : contexts[i].open }
\* Every caller's call has ended, and no awaited Playwright call failed.
Quiescent ==
  /\ \A c \in Callers : calls[c].pc = "done"
  /\ ~callog.failed /\ session = "ready" /\ resets.closefail = FALSE

\* C24: when get_page()/reset_page() calls of different requests interleave
\* at their suspension points, afterwards exactly one context and one page
\* are live, both are the ones the session references, and nothing created
\* during the interleaving is left open unreferenced.
C24_Serialized ==
  Quiescent =>
    /\ LiveContexts = {context}
    /\ LivePages = {page}
    /\ pages[page].context = context

\* What the code guarantees: the same when no two calls overlapped.
C24_OneAtATime ==
  (Quiescent /\ ~callog.overlapped) =>
    /\ LiveContexts = {context}
    /\ LivePages = {page}
    /\ pages[page].context = context

\* Two calls that overlapped have both returned a page.
C24_BothReturned ==
  /\ Quiescent /\ callog.overlapped
  /\ \A c \in Callers : ~calls[c].raised /\ calls[c].got # None


\* ---- a context-destroyed error in a browser tool ------------------------
\* The tool call that holds a page ends in this step.
ToolEnds == tpc = "page" /\ tpc' = "idle"
\* ... in the branch of the context-destroyed error.
WasDestroyed == destroyed'.page # None

\* C25: when the page action of a browser tool fails with a
\* context-destroyed error, the tool resets the session once, does not
\* repeat the action, and returns the message asking to navigate again; any
\* other browser error or timeout triggers no reset and leaves the session's
\* page unchanged.
C25_DestroyedHandling ==
  [][ ToolEnds =>
        IF WasDestroyed
        THEN /\ resets'.ran /\ resets'.before = held
             /\ tresult' = "navigate_again"
        ELSE /\ tresult' = "text"
             /\ UNCHANGED <<context, page, contexts, pages, resets>> ]_vars

\* What the code guarantees: the message is returned when reset_page()
\* returns; when it raises, its exception leaves the tool.
C25_WhenResetReturns ==
  [][ ToolEnds =>
        IF WasDestroyed
        THEN /\ resets'.ran /\ resets'.before = held
             /\ tresult' = IF resets'.raised THEN "raised" ELSE "navigate_again"
             /\ ~resets'.raised => page' # held /\ page' = Len(pages')
        ELSE /\ tresult' = "text"
             /\ UNCHANGED <<context, page, contexts, pages, resets>> ]_vars


\* ---- the order of the relayed frames ------------------------------------
\* The events the relay forwards, and the frame of each.
Forwarded(e) ==
  \/ e.event = "on_chat_model_stream" /\ e.data # ""
  \/ e.event \in {"on_tool_start", "on_tool_end"}
FrameType(e) ==
  CASE e.event = "on_chat_model_stream" -> "token"
    [] e.event = "on_tool_start" -> "tool_start"
    [] e.event = "on_tool_end" -> "tool_end"
NonTerminal(f) == ~Terminal(f)

\* C26: the non-terminal frames of a stream are the images, in the same
\* order and each exactly once, of the token (non-empty text), tool-start
\* and tool-end events the agent has produced; events of any other kind
\* produce no frame.
C26_RelayOrder ==
  LET sent == SelectSeq(frames, NonTerminal)
      due == SelectSeq(evlog, Forwarded)
  IN  /\ Len(sent) = Len(due)
      /\ \A i \in DOMAIN sent :
           sent[i] = [type |-> FrameType(due[i]), content |-> due[i].data]
      /\ \A i \in DOMAIN frames : Terminal(frames[i]) => i = Len(frames)

\* A stream has ended after a chunk without text, a token and a tool event:
\* two frames precede the terminal one.
C26_Witness ==
  /\ gen = "closed" /\ Len(evlog) = 3 /\ Len(frames) = 3
  /\ evlog[1] = Event("on_chat_model_stream", "")
  /\ evlog[2] = Event("on_chat_model_stream", "Hello")
  /\ evlog[3].event = "on_tool_end"


\* ---- Retry-After --------------------------------------------------------
\* Requests i+1 .. j-1 of L were all rejected.
NoneAdmitted(L, i, j) == \A m \in (i + 1)..(j - 1) : L[m].status = 429
\* The time the rejected request i of L is told to come back at.
ComeBack(L, i) == L[i].t + L[i].retry * TicksPerSec
\* The requests 1..j of L arrived at whole seconds.
WholeSeconds(L, j) == \A m \in 1..j : L[m].t % TicksPerSec = 0

\* C27: a request of a key rejected at time t carries a Retry-After r in
\* 1..61; when no other request of the key is admitted in between, a request
\* of the key at t + r (or later) is admitted, and with whole-second
\* timestamps a request earlier than t + r is rejected.
C27_RetryAfter ==
  \A k \in Keys :
    LET L == KeyLog(k) IN
    \A i \in 1..Len(L) :
      L[i].status = 429 =>
        /\ L[i].retry \in 1..RetryBase
        /\ \A j \in (i + 1)..Len(L) :
             NoneAdmitted(L, i, j) =>
               /\ L[j].t >= ComeBack(L, i) => L[j].status = 200
               /\ (WholeSeconds(L, j) /\ L[j].t < ComeBack(L, i))
                    => L[j].status = 429

\* A client rejected at 1 s with Retry-After 60 came back at 60 s, was
\* rejected again, came back at 61 s and was admitted.
C27_Witness ==
  LET L == KeyLog("k1") IN
  /\ Len(L) = 4 /\ rpm = 1
  /\ L[2].status = 429 /\ L[2].t = TicksPerSec /\ L[2].retry = 60
  /\ L[3].status = 429 /\ L[3].t = ComeBack(L, 2) - TicksPerSec
  /\ L[4].status = 200 /\ L[4].t = ComeBack(L, 2)


\* ---- the cleanup of the rate limiter ------------------------------------
\* The requests admitted so far.
AdmittedCount == Cardinality({ i \in DOMAIN reqlog : reqlog[i].status = 200 })
\* The windows the behaviour started with.
InitialWindows ==
  IF request_count = AdmittedCount THEN << >> ELSE [ k \in Keys |-> <<LongAgo>> ]

\* The windows of a limiter that never runs _cleanup, after the first n
\* requests of reqlog.
RECURSIVE Reference(_)
Reference(n) ==
  IF n = 0 THEN InitialWindows
  ELSE LET ws == Reference(n - 1)
           r == reqlog[n]
           w == Purge(SetDefault(ws, r.key), r.t)
       IN  Put(ws, r.key, IF OverLimit(w) THEN w ELSE Admit(w, r.t))

\* What that limiter answers to request n.
ReferenceAnswer(n) ==
  LET r == reqlog[n]
      w == Purge(SetDefault(Reference(n - 1), r.key), r.t)
  IN  IF OverLimit(w)
      THEN [key |-> r.key, t |-> r.t, status |-> 429, retry |-> RetryAfter(w, r.t)]
      ELSE [key |-> r.key, t |-> r.t, status |-> 200, retry |-> 0]

\* C28: _cleanup removes only keys whose window has no timestamp within the
\* trailing 60 seconds, never the key just admitted, so the outcome and the
\* Retry-After of every request are those of a limiter that never runs it;
\* it runs only on every 100th admitted keyed request, and rejected or
\* keyless requests do not advance its counter.
C28_CleanupTransparent ==
  /\ [](\A n \in DOMAIN reqlog : reqlog[n] = ReferenceAnswer(n))
  /\ [](request_count - AdmittedCount \in {0, CleanupEvery - 2})
  /\ [][ \A k \in (DOMAIN windows) \ (DOMAIN windows') :
           /\ request_count' = request_count + 1
           /\ request_count' % CleanupEvery = 0
           /\ Last(reqlog').status = 200 /\ Last(reqlog').key # k
           /\ windows[k] = << >> \/ Last(windows[k]) < now' - WindowTicks ]_vars
  /\ [][ request_count' # request_count =>
           /\ request_count' = request_count + 1
           /\ Len(reqlog') = Len(reqlog) + 1
           /\ Last(reqlog').status = 200 ]_vars

\* The 100th admitted request removed the window of a key that had been
\* admitted more than 60 s earlier, and that key was admitted again later.
C28_Witness ==
  /\ request_count > CleanupEvery
  /\ \E i, j, m \in DOMAIN reqlog :
       /\ i < j /\ j < m
       /\ reqlog[i].status = 200 /\ reqlog[m].status = 200
       /\ reqlog[m].key = reqlog[i].key /\ reqlog[j].key # reqlog[i].key
       /\ reqlog[j].status = 200
       /\ reqlog[j].t - reqlog[i].t > WindowTicks
       /\ AdmittedCount = 3 /\ m = Len(reqlog)


\* ---- concurrent fetches of one URL --------------------------------------
\* Invocations s and t are both suspended in a GET for the same URL.
BothInFlight(s, t) ==
  /\ s # t
  /\ fetch[s].pc = "get" /\ fetch[t].pc = "get"
  /\ fetch[s].url = fetch[t].url

\* C29: when a fetch of a validated, uncached URL starts while another fetch
\* of the same URL is suspended on its network call, at most one network
\* call is issued for the URL (so that both callers get the one body, which
\* the cache then holds): no two invocations are ever suspended in a GET of
\* the same URL, and no invocation issues a GET for a URL while another is
\* suspended in one.
C29_SingleFlight ==
  /\ [](\A s, t \in Slots : ~BothInFlight(s, t))
  /\ [][ \A s, t \in Slots :
           (s # t /\ Begins(s) /\ fetch[t].pc = "get"
              /\ fetch'[s].url = fetch[t].url)
             => fetch'[s].gets = 0 ]_vars

\* What the code does: a fetch that passes validation and finds no fresh
\* entry issues its own GET, whether or not another GET of the URL is under
\* way; each caller gets the body of its own response and the cache holds
\* the body of the GET that completed last.
C29_OwnGet ==
  /\ [][ \A s \in Slots :
           (Begins(s) /\ fetch'[s].valid /\ ~Fresh(fetch'[s].url))
             => fetch'[s].gets = 1 /\ fetch'[s].pc = "get" ]_vars
  /\ [][ \A s \in Slots :
           (Completes(s) /\ fetch'[s].wrote)
             => cache'[fetch[s].url].html = fetch'[s].res.html ]_vars
  /\ [](\A u \in DOMAIN cache : u \in DOMAIN netlog /\ cache[u] = netlog[u])

====
